---- MODULE Spec2Model ----
(***************************************************************************)
(* A model of the Storybook MCP server: the shared browser singleton      *)
(* (storybook/browser.ts), captureComponent (storybook/screenshot.ts),    *)
(* the capture tool handler and gracefulShutdown (index.ts), and the      *)
(* component discovery getComponents (components.ts).                     *)
(*                                                                         *)
(* Every await of the source is a scheduling point: the code between two  *)
(* awaits runs as one action.  Calls of the environment (file system,     *)
(* browser, HTTP) have their outcome fixed by an input of the call.       *)
(***************************************************************************)
EXTENDS Integers, Sequences, FiniteSets, TLC

(***************************************************************************)
(* Bounds                                                                  *)
(***************************************************************************)
\* number of capture requests the client issues
MaxCalls == 2

Calls == 1..MaxCalls
\* a browser is named by the order of its launch; every call launches at most one
Browsers == 1..MaxCalls

(***************************************************************************)
(* State of the server process                                             *)
(***************************************************************************)
VARIABLES
  browserInstance,   \* browser.ts: the global browser, 0 is null
  browserContext,    \* browser.ts: the global context, 0 is null; a context is
                     \* named by the browser it was opened on
  browserState,      \* per browser: "none", "open", "closed"
  closeCalls,        \* per browser: how often close() was invoked on it
  launchCalls,       \* how often chromium.launch() was invoked
  dirExists,         \* the output directory exists (runServer's ensureOutputDir
                     \* made it before the first request)
  testFile,          \* the file .write-test exists in the output directory
  pc,                \* per call: the await it stands at
  myB,               \* per call: the browser whose newContext() it awaits
  got,               \* per call: what getBrowser returned
  pageState,         \* per call: "none", "open", "closed"
  pageCtx,           \* per call: the context its page was opened in
  fault,             \* per call: the operation the environment made fail, or "none"
  result,            \* per call: "none", "ok", "failed"
  activeRequests,    \* index.ts: serverState.activeRequests
  isShuttingDown,    \* index.ts: serverState.isShuttingDown
  sdpc,              \* gracefulShutdown: "idle", "waiting", "closing", "exited"
  closingB           \* the browser whose close() closeBrowser awaits

srvVars == <<browserInstance, browserContext, browserState, closeCalls, launchCalls,
             dirExists, testFile, pc, myB, got, pageState, pageCtx, fault, result,
             activeRequests, isShuttingDown, sdpc, closingB>>

\* getComponents (components.ts): one discovery, on a browser of its own
VARIABLES
  data,              \* the story index of the Storybook: entries in key order
  indexResp,         \* how {storybookUrl}/index.json answers
  storiesResp,       \* how {storybookUrl}/stories.json answered, "none" before
  baseDoc,           \* the document served at storybookUrl, as loaded
  dpc,               \* the await getComponents stands at
  loc,               \* the document the page shows: "blank", "base", "index", "stories"
  attempted,         \* the strategies attempted so far, in order
  dBrowser,          \* the browser of the discovery: "none", "open", "closed"
  dResult            \* what getComponents returned or threw

dVars == <<data, indexResp, storiesResp, baseDoc, dpc, loc, attempted, dBrowser, dResult>>

\* getComponentUrl (storybook/screenshot.ts): one evaluation. A string is held
\* as the sequence of its characters.
VARIABLES
  component,         \* the component parameter
  variant,           \* the variant parameter
  storyId,           \* the storyId of the result
  urlPath,           \* the path of the componentUrl: "story" or "docs"; "none" before
  upc                \* "idle" before the evaluation, "done" after

urlVars == <<component, variant, storyId, urlPath, upc>>

\* prepareForStorybookUrl (utils): applied to a string, and to its own result
VARIABLES
  str,               \* the string given to prepareForStorybookUrl
  prepared,          \* prepareForStorybookUrl(str)
  reprepared,        \* prepareForStorybookUrl(prepared)
  spc                \* how often the function was applied: "idle", "once", "twice"

slugVars == <<str, prepared, reprepared, spc>>

\* formatArgsForUrl (utils): one evaluation
VARIABLES
  args,              \* the args object: its entries [key, value] in key order
  argsString,        \* the string formatArgsForUrl returned
  apc                \* "idle" before the evaluation, "done" after

argsVars == <<args, argsString, apc>>

\* the try block of captureComponent: one capture in detail
VARIABLES
  dom,               \* the document shown at the story URL
  state,             \* the state of the request
  bpc,               \* the await the capture stands at
  page,              \* the page of the capture: "none", "open", "closed"
  response,          \* what page.goto(componentUrl) gave
  iframeLoaded,      \* the result of the first waitForIframeLoad
  variantSelected,   \* the result of selectVariantInStorybook
  variantVerified,   \* the result of verifyVariantLoaded
  stateScript,       \* how the script of applyStateToFrame ended: "none" before,
                     \* "skipped", "noElement", "ran", "threw"
  classes,           \* the marker classes added to the element the script selected
  found,             \* findComponentElement returned an element
  tier,              \* what the screenshot was taken of: "none" before,
                     \* "component", "root", "iframe", "page"
  screenshot,        \* the value of screenshot: "none", "buffer", "null"
  fileWritten,       \* the screenshot file was written
  bfault,            \* the step that threw, or "none"
  captureResult      \* what captureComponent returned or that it threw

bodyVars == <<dom, state, bpc, page, response, iframeLoaded, variantSelected,
              variantVerified, stateScript, classes, found, tier, screenshot,
              fileWritten, bfault, captureResult>>

\* the screenshot files of captures with identical component, variant, state and
\* viewport
VARIABLES
  now,               \* the clock (new Date()), in milliseconds
  ipc,               \* per invocation: "idle", "capturing", "writing", "done"
  startedAt,         \* per invocation: the clock at its start
  filename,          \* per invocation: the timestamp of its filename, 0 before
  files,             \* per filename: the invocation whose screenshot the file holds,
                     \* 0 when there is no such file
  replaced           \* the invocations whose file was overwritten

fileVars == <<now, ipc, startedAt, filename, files, replaced>>

\* the file names of two captures
VARIABLES
  options,           \* per capture: the CaptureOptions and the clock at the file name
  filenames,         \* per capture: its file name, <<>> before
  npc                \* per capture: "idle" or "named"

nameVars == <<options, filenames, npc>>

\* one call of checkStorybookConnection
VARIABLES
  target,            \* what the storybookUrl serves
  probeBrowser,      \* the browser of the call: "none", "open", "closed"
  qpc,               \* the position of the call
  endpoint,          \* the index in apiEndpoints of the endpoint tried next
  connection         \* the outcome: "none", "ok" (returned), "failed" (threw)

probeVars == <<target, probeBrowser, qpc, endpoint, connection>>

\* one call of checkStorybookConnectionWithRetry
VARIABLES
  maxRetries,        \* the parameter maxRetries
  delay,             \* the parameter delay, in milliseconds
  attempts,          \* the local attempts: the failed calls so far
  checkCalls,        \* the calls of checkStorybookConnection so far
  successes,         \* those of them that succeeded
  backoffs,          \* the backoff delays waited, in order
  rpc,               \* the position: "loop", "calling", "waiting", "returned"
  retryResult        \* what the call returned: "none", "true", "false", "threw"

retryVars ==
  <<maxRetries, delay, attempts, checkCalls, successes, backoffs, rpc, retryResult>>

\* the element that gets the state and the element that is captured
VARIABLES
  frameDoc,          \* the containers of the document, in document order
  marked,            \* the element that got the marker classes and the events
  captured,          \* what screenshotComponent captures
  mpc                \* the position: "idle", "applied", "captured"

domVars == <<frameDoc, marked, captured, mpc>>

\* the background connection checker
VARIABLES
  storybookConnected,          \* serverState.storybookConnected
  storybookConnectionChecker,  \* the timer the global names, 0 for null
  timers,                      \* the interval timers that are active
  timerCount,                  \* the timers created so far
  checking,                    \* the timer callbacks that await their check
  hkind,                       \* per tool request: "none", "health", "reconnect"
  hpc,                         \* per tool request: "idle", "awaiting", "done"
  cpc                          \* the server: "connecting", "serving", "stopping",
                               \* "exited"

checkerVars ==
  <<storybookConnected, storybookConnectionChecker, timers, timerCount, checking,
    hkind, hpc, cpc>>

\* the screenshot test run against the server
VARIABLES
  storybook,              \* what each story of the Storybook renders, per component
  componentsMap,          \* the components the test got from the components tool
  currentComponentIndex,  \* the indexes of the test, from 0
  currentVariantIndex,
  currentStateIndex,
  currentTest,            \* "components-tool", "capture-screenshot", "completed"
  captureRequest,         \* the capture request in flight
  captureData,            \* the answer of the capture tool, not yet handled
  outputFiles,            \* the screenshot files in the output directory
  screenshotsTaken,
  failedScreenshots

testVars ==
  <<storybook, componentsMap, currentComponentIndex, currentVariantIndex,
    currentStateIndex, currentTest, captureRequest, captureData, outputFiles,
    screenshotsTaken, failedScreenshots>>

\* the variables of every specification but the server's and the discovery's
restVars ==
  <<urlVars, slugVars, argsVars, bodyVars, fileVars, nameVars, probeVars, retryVars,
    domVars, checkerVars, testVars>>

vars == <<srvVars, dVars, restVars>>

\* the operations of a capture call that the environment can make fail
Faults == {"launch", "context", "navigate", "screenshot", "write"}

NoSession == [browser |-> 0, context |-> 0]

ServerInit ==
  /\ browserInstance = 0
  /\ browserContext = 0
  /\ browserState = [b \in Browsers |-> "none"]
  /\ closeCalls = [b \in Browsers |-> 0]
  /\ launchCalls = 0
  /\ dirExists = TRUE
  /\ testFile = FALSE
  /\ pc = [i \in Calls |-> "idle"]
  /\ myB = [i \in Calls |-> 0]
  /\ got = [i \in Calls |-> NoSession]
  /\ pageState = [i \in Calls |-> "none"]
  /\ pageCtx = [i \in Calls |-> 0]
  /\ fault = [i \in Calls |-> "none"]
  /\ result = [i \in Calls |-> "none"]
  /\ activeRequests = 0
  /\ isShuttingDown = FALSE
  /\ sdpc = "idle"
  /\ closingB = 0

Running == sdpc # "exited"

UrlIdle ==
  /\ component = <<>>
  /\ variant = <<>>
  /\ storyId = <<>>
  /\ urlPath = "none"
  /\ upc = "idle"

SlugIdle ==
  /\ str = <<>>
  /\ prepared = <<>>
  /\ reprepared = <<>>
  /\ spc = "idle"

ArgsIdle ==
  /\ args = <<>>
  /\ argsString = <<>>
  /\ apc = "idle"

\* the ComponentState of the request; an absent flag is a false one
States == [hover : BOOLEAN, focus : BOOLEAN, active : BOOLEAN]

NoState == [hover |-> FALSE, focus |-> FALSE, active |-> FALSE]

\* what page.goto(componentUrl) gives: it throws, it resolves to null, or it
\* resolves to a response with a status
Response(kind, status) == [kind |-> kind, status |-> status]

Statuses == {200, 304, 399, 400, 404, 500}

Responses ==
  {Response("threw", 0), Response("null", 0)} \cup {Response("status", n) : n \in Statuses}

NoResult == [success |-> FALSE, screenshotPath |-> FALSE, thrown |-> FALSE]

BodyIdle ==
  /\ dom = [iframe |-> FALSE, frame |-> FALSE, root |-> FALSE, child |-> FALSE]
  /\ state = NoState
  /\ bpc = "idle"
  /\ page = "none"
  /\ response = Response("none", 0)
  /\ iframeLoaded = FALSE
  /\ variantSelected = FALSE
  /\ variantVerified = FALSE
  /\ stateScript = "none"
  /\ classes = {}
  /\ found = FALSE
  /\ tier = "none"
  /\ screenshot = "none"
  /\ fileWritten = FALSE
  /\ bfault = "none"
  /\ captureResult = NoResult

\* number of captures with identical parameters
MaxInvocations == 2
\* last millisecond of the clock
MaxClock == 4

Invocations == 1..MaxInvocations

Timestamps == 1..MaxClock

FilesIdle ==
  /\ now = 1
  /\ ipc = [i \in Invocations |-> "idle"]
  /\ startedAt = [i \in Invocations |-> 0]
  /\ filename = [i \in Invocations |-> 0]
  /\ files = [t \in Timestamps |-> 0]
  /\ replaced = {}

\* the two captures whose file names are compared
Captures == 1..2

NamesIdle ==
  /\ options = <<>>
  /\ filenames = [i \in Captures |-> <<>>]
  /\ npc = [i \in Captures |-> "idle"]

\* apiEndpoints
ApiEndpoints ==
  <<"/stories.json", "/index.json", "/iframe.html?id=example", "/?path=/story/example">>

\* what the storybookUrl serves: the outcome of page.goto on the base URL and on
\* each endpoint, whether a Storybook global object is there, and what the
\* look for UI evidence gives ("found", "none", or "threw" when the page cannot
\* be read)
Targets ==
  [base : Responses,
   api : [1..Len(ApiEndpoints) -> {Response("threw", 0), Response("status", 200),
                                   Response("status", 404)}],
   detected : BOOLEAN,
   evidence : {"found", "none", "threw"}]

NoTarget ==
  [base |-> Response("none", 0),
   api |-> [k \in 1..Len(ApiEndpoints) |-> Response("none", 0)],
   detected |-> FALSE,
   evidence |-> "none"]

ProbeIdle ==
  /\ target = NoTarget
  /\ probeBrowser = "none"
  /\ qpc = "idle"
  /\ endpoint = 1
  /\ connection = "none"

RetryIdle ==
  /\ maxRetries = 0
  /\ delay = 0
  /\ attempts = 0
  /\ checkCalls = 0
  /\ successes = 0
  /\ backoffs = <<>>
  /\ rpc = "idle"
  /\ retryResult = "none"

\* an element of the document: the k-th child of the c-th container
Element(c, k) == [container |-> c, child |-> k]

NoElement == Element(0, 0)

DomIdle ==
  /\ frameDoc = <<>>
  /\ marked = NoElement
  /\ captured = "none"
  /\ mpc = "idle"

\* most tool requests of a run of the connection checker
MaxRequests == 2

Requests == 1..MaxRequests

CheckerIdle ==
  /\ storybookConnected = FALSE
  /\ storybookConnectionChecker = 0
  /\ timers = {}
  /\ timerCount = 0
  /\ checking = 0
  /\ hkind = [i \in Requests |-> "none"]
  /\ hpc = [i \in Requests |-> "idle"]
  /\ cpc = "idle"

NoCaptureRequest == [component |-> 0, variant |-> 0, state |-> "none"]

NoCaptureData == [answered |-> FALSE, success |-> FALSE, screenshotPath |-> 0]

TestIdle ==
  /\ storybook = <<>>
  /\ componentsMap = <<>>
  /\ currentComponentIndex = 0
  /\ currentVariantIndex = 0
  /\ currentStateIndex = 0
  /\ currentTest = "idle"
  /\ captureRequest = NoCaptureRequest
  /\ captureData = NoCaptureData
  /\ outputFiles = {}
  /\ screenshotsTaken = 0
  /\ failedScreenshots = 0

RestIdle ==
  UrlIdle /\ SlugIdle /\ ArgsIdle /\ BodyIdle /\ FilesIdle /\ NamesIdle /\
  ProbeIdle /\ RetryIdle /\ DomIdle /\ CheckerIdle /\ TestIdle

(***************************************************************************)
(* The capture tool handler and captureComponent                          *)
(***************************************************************************)
\* the handler's finally: the call is over, with or without an error
Finish(i, r) ==
  /\ pc' = [pc EXCEPT ![i] = "done"]
  /\ result' = [result EXCEPT ![i] = r]
  /\ activeRequests' = activeRequests - 1

Goto(i, l) ==
  /\ pc' = [pc EXCEPT ![i] = l]
  /\ UNCHANGED <<result, activeRequests>>

\* the handler counts the request and calls captureComponent, which runs up to
\* the mkdir of validateOutputDirectory
CallStart(i) ==
  /\ Running
  /\ pc[i] = "idle"
  /\ pc' = [pc EXCEPT ![i] = "vMkdir"]
  /\ activeRequests' = activeRequests + 1
  /\ UNCHANGED <<browserInstance, browserContext, browserState, closeCalls, launchCalls,
                 dirExists, testFile, myB, got, pageState, pageCtx, fault, result,
                 isShuttingDown, sdpc, closingB, dVars, restVars>>

\* what a step of the file-system part leaves alone
FsFrame ==
  UNCHANGED <<browserInstance, browserContext, browserState, closeCalls, launchCalls,
              myB, got, pageState, pageCtx, fault, isShuttingDown, sdpc, closingB, dVars, restVars>>

\* validateOutputDirectory: fs.mkdir(resolvedPath, {recursive: true})
ValidateMkdir(i) ==
  /\ Running
  /\ pc[i] = "vMkdir"
  /\ dirExists' = TRUE
  /\ Goto(i, "vWrite")
  /\ UNCHANGED testFile
  /\ FsFrame

\* validateOutputDirectory: fs.writeFile(testFile, 'test')
ValidateWrite(i) ==
  /\ Running
  /\ pc[i] = "vWrite"
  /\ testFile' = TRUE
  /\ Goto(i, "vUnlink")
  /\ UNCHANGED dirExists
  /\ FsFrame

\* validateOutputDirectory: fs.unlink(testFile), which fails on a missing file;
\* the catch rethrows as 'Invalid output directory'
ValidateUnlink(i) ==
  /\ Running
  /\ pc[i] = "vUnlink"
  /\ IF testFile
       THEN testFile' = FALSE /\ Goto(i, "cMkdir")
       ELSE UNCHANGED testFile /\ Finish(i, "failed")
  /\ UNCHANGED dirExists
  /\ FsFrame

\* captureComponent: fs.mkdir(outputDir, {recursive: true})
CaptureMkdir(i) ==
  /\ Running
  /\ pc[i] = "cMkdir"
  /\ dirExists' = TRUE
  /\ Goto(i, "cWrite")
  /\ UNCHANGED testFile
  /\ FsFrame

\* captureComponent: fs.writeFile(testFile, 'test')
CaptureWrite(i) ==
  /\ Running
  /\ pc[i] = "cWrite"
  /\ testFile' = TRUE
  /\ Goto(i, "cUnlink")
  /\ UNCHANGED dirExists
  /\ FsFrame

\* captureComponent: fs.unlink(testFile); the catch rethrows as
\* 'Cannot write to output directory'; on success getBrowser is called
CaptureUnlink(i) ==
  /\ Running
  /\ pc[i] = "cUnlink"
  /\ IF testFile
       THEN testFile' = FALSE /\ Goto(i, "getBrowser")
       ELSE UNCHANGED testFile /\ Finish(i, "failed")
  /\ UNCHANGED dirExists
  /\ FsFrame

(***************************************************************************)
(* getBrowser (storybook/browser.ts)                                       *)
(***************************************************************************)
\* what a step of getBrowser or of the capture body leaves alone
CallFrame ==
  UNCHANGED <<dirExists, testFile, closeCalls, isShuttingDown, sdpc, closingB, dVars, restVars>>

\* the browser the next successful launch yields
NextBrowser == Cardinality({b \in Browsers : browserState[b] # "none"}) + 1

\* getBrowser up to its first await: with no browser it invokes chromium.launch(),
\* with one it returns the two globals as they are
GetBrowserEnter(i) ==
  /\ Running
  /\ pc[i] = "getBrowser"
  /\ IF browserInstance = 0
       THEN /\ launchCalls' = launchCalls + 1
            /\ Goto(i, "launching")
            /\ UNCHANGED got
       ELSE /\ got' = [got EXCEPT ![i] =
                         [browser |-> browserInstance, context |-> browserContext]]
            /\ Goto(i, "newPage")
            /\ UNCHANGED launchCalls
  /\ UNCHANGED <<browserInstance, browserContext, browserState, myB, pageState,
                 pageCtx, fault>>
  /\ CallFrame

\* chromium.launch() resolves: the browser is stored in browserInstance and
\* newContext() is invoked on it
LaunchResolve(i) ==
  /\ Running
  /\ pc[i] = "launching"
  /\ browserState' = [browserState EXCEPT ![NextBrowser] = "open"]
  /\ browserInstance' = NextBrowser
  /\ myB' = [myB EXCEPT ![i] = NextBrowser]
  /\ Goto(i, "newContext")
  /\ UNCHANGED <<browserContext, launchCalls, got, pageState, pageCtx, fault>>
  /\ CallFrame

\* chromium.launch() rejects: getBrowser throws, outside the try of
\* captureComponent, before a page exists
LaunchReject(i) ==
  /\ Running
  /\ pc[i] = "launching"
  /\ fault' = [fault EXCEPT ![i] = "launch"]
  /\ Finish(i, "failed")
  /\ UNCHANGED <<browserInstance, browserContext, browserState, launchCalls, myB, got,
                 pageState, pageCtx>>
  /\ CallFrame

\* newContext() resolves: the context is stored in browserContext and getBrowser
\* returns the two globals
ContextResolve(i) ==
  /\ Running
  /\ pc[i] = "newContext"
  /\ browserContext' = myB[i]
  /\ got' = [got EXCEPT ![i] = [browser |-> browserInstance, context |-> myB[i]]]
  /\ Goto(i, "newPage")
  /\ UNCHANGED <<browserInstance, browserState, launchCalls, myB, pageState, pageCtx,
                 fault>>
  /\ CallFrame

\* newContext() rejects: getBrowser throws and leaves browserInstance as it is
ContextReject(i) ==
  /\ Running
  /\ pc[i] = "newContext"
  /\ fault' = [fault EXCEPT ![i] = "context"]
  /\ Finish(i, "failed")
  /\ UNCHANGED <<browserInstance, browserContext, browserState, launchCalls, myB, got,
                 pageState, pageCtx>>
  /\ CallFrame

(***************************************************************************)
(* captureComponent from context.newPage() on (storybook/screenshot.ts)    *)
(***************************************************************************)
\* context.newPage(): a null context is a TypeError, thrown before the try
NewPage(i) ==
  /\ Running
  /\ pc[i] = "newPage"
  /\ IF got[i].context = 0
       THEN /\ Finish(i, "failed")
            /\ UNCHANGED <<pageState, pageCtx>>
       ELSE /\ pageState' = [pageState EXCEPT ![i] = "open"]
            /\ pageCtx' = [pageCtx EXCEPT ![i] = got[i].context]
            /\ Goto(i, "bodyNav")
  /\ UNCHANGED <<browserInstance, browserContext, browserState, launchCalls, myB, got,
                 fault>>
  /\ CallFrame

\* one part of the try block: it goes on when the environment lets it succeed
\* and throws when not
BodyStep(i, here, ok, failure, next) ==
  /\ Running
  /\ pc[i] = here
  /\ IF ok
       THEN UNCHANGED fault /\ Goto(i, next)
       ELSE fault' = [fault EXCEPT ![i] = failure] /\ Goto(i, "finally")
  /\ UNCHANGED <<browserInstance, browserContext, browserState, launchCalls, myB, got,
                 pageState, pageCtx>>
  /\ CallFrame

\* viewport, the two navigations and the check of the response
BodyNavigate(i, ok) == BodyStep(i, "bodyNav", ok, "navigate", "bodyShot")

\* the waits, the variant selection, the state and the screenshot, which throws
\* 'Failed to capture component screenshot' on a null buffer
BodyScreenshot(i, ok) == BodyStep(i, "bodyShot", ok, "screenshot", "bodyWrite")

\* the file name and fs.writeFile(filePath, screenshot)
BodyWrite(i, ok) == BodyStep(i, "bodyWrite", ok, "write", "finally")

\* a capture that closes its page at the end of the try block, not in a finally
ReleasePage_OnSuccessOnly(i) ==
  /\ Running
  /\ pc[i] = "finally"
  /\ pageState' = [pageState EXCEPT ![i] = IF fault[i] = "none" THEN "closed" ELSE @]
  /\ Finish(i, IF fault[i] = "none" THEN "ok" ELSE "failed")
  /\ UNCHANGED <<browserInstance, browserContext, browserState, launchCalls, myB, got,
                 pageCtx, fault>>
  /\ CallFrame

\* finally { await page.close() }, then the return or the rethrow of the catch
ReleasePage(i) ==
  /\ Running
  /\ pc[i] = "finally"
  /\ pageState' = [pageState EXCEPT ![i] = "closed"]
  /\ Finish(i, IF fault[i] = "none" THEN "ok" ELSE "failed")
  /\ UNCHANGED <<browserInstance, browserContext, browserState, launchCalls, myB, got,
                 pageCtx, fault>>
  /\ CallFrame

(***************************************************************************)
(* gracefulShutdown (index.ts), closeBrowser and the 'exit' handler        *)
(* (storybook/browser.ts)                                                  *)
(***************************************************************************)
Triggers == {"SIGINT", "SIGTERM", "transportClose", "uncaughtException"}

\* what a step of the shutdown leaves alone
ShutdownFrame ==
  UNCHANGED <<launchCalls, dirExists, testFile, pageCtx, result, activeRequests, dVars, restVars>>

\* what gracefulShutdown leaves alone while the process lives on
CallsLiveOn == UNCHANGED <<pc, myB, got, fault>>

InFlight(i) == pc[i] \notin {"idle", "done"}

\* process.exit: the calls in flight never resume, their frames are gone
ProcessExit ==
  /\ sdpc' = "exited"
  /\ pc' = [i \in Calls |-> IF InFlight(i) THEN "killed" ELSE pc[i]]
  /\ myB' = [i \in Calls |-> IF InFlight(i) THEN 0 ELSE myB[i]]
  /\ got' = [i \in Calls |-> IF InFlight(i) THEN NoSession ELSE got[i]]
  /\ fault' = [i \in Calls |-> IF InFlight(i) THEN "none" ELSE fault[i]]

\* process.on('exit') of browser.ts: close() is invoked on a browser that
\* browserInstance still names
ExitHandler(bi) ==
  IF bi # 0 THEN [closeCalls EXCEPT ![bi] = @ + 1] ELSE closeCalls

\* closeBrowser up to its await: close() is invoked on browserInstance; with no
\* browser it returns, gracefulShutdown calls process.exit and the 'exit'
\* handler finds no browser
CloseBrowserEnter ==
  IF browserInstance # 0
    THEN /\ closeCalls' = [closeCalls EXCEPT ![browserInstance] = @ + 1]
         /\ closingB' = browserInstance
         /\ sdpc' = "closing"
         /\ CallsLiveOn
    ELSE /\ closeCalls' = ExitHandler(browserInstance)
         /\ closingB' = closingB
         /\ ProcessExit

\* the first trigger: gracefulShutdown sets the flag and either waits for the
\* active requests or goes on to closeBrowser
ShutdownTrigger(t) ==
  /\ Running
  /\ ~isShuttingDown
  /\ isShuttingDown' = TRUE
  /\ IF activeRequests > 0
       THEN sdpc' = "waiting" /\ CallsLiveOn /\ UNCHANGED <<closeCalls, closingB>>
       ELSE CloseBrowserEnter
  /\ UNCHANGED <<browserInstance, browserContext, browserState, pageState>>
  /\ ShutdownFrame

\* a further trigger of any kind: 'Shutdown already in progress, ignoring duplicate request'
DuplicateTrigger ==
  /\ Running
  /\ isShuttingDown
  /\ UNCHANGED vars

\* the interval check finds no active request left
WaitRequestsDone ==
  /\ sdpc = "waiting"
  /\ activeRequests = 0
  /\ CloseBrowserEnter
  /\ UNCHANGED <<browserInstance, browserContext, browserState, pageState,
                 isShuttingDown>>
  /\ ShutdownFrame

\* a race without the 5 s timer
WaitTimeout_NoTimer ==
  /\ FALSE
  /\ UNCHANGED vars

\* the 5 s timer of the Promise.race fires first
WaitTimeout ==
  /\ sdpc = "waiting"
  /\ activeRequests > 0
  /\ CloseBrowserEnter
  /\ UNCHANGED <<browserInstance, browserContext, browserState, pageState,
                 isShuttingDown>>
  /\ ShutdownFrame

\* close() resolves: the browser and its pages are gone, closeBrowser clears both
\* globals, gracefulShutdown calls process.exit and the 'exit' handler finds no
\* browser
CloseResolve ==
  /\ sdpc = "closing"
  /\ browserState' = [browserState EXCEPT ![closingB] = "closed"]
  /\ pageState' = [i \in Calls |->
                     IF pageState[i] = "open" /\ pageCtx[i] = closingB
                       THEN "closed" ELSE pageState[i]]
  /\ browserInstance' = 0
  /\ browserContext' = 0
  /\ closeCalls' = ExitHandler(0)
  /\ ProcessExit
  /\ UNCHANGED <<closingB, isShuttingDown>>
  /\ ShutdownFrame

\* close() rejects: closeBrowser throws before it clears the globals, the catch
\* of gracefulShutdown logs, process.exit runs the 'exit' handler
CloseReject ==
  /\ sdpc = "closing"
  /\ closeCalls' = ExitHandler(browserInstance)
  /\ ProcessExit
  /\ UNCHANGED <<browserInstance, browserContext, browserState, pageState, closingB,
                 isShuttingDown>>
  /\ ShutdownFrame

(***************************************************************************)
(* The story index served to getComponents                                 *)
(*                                                                         *)
(* A string that the code splits is held by its parts: a title or a        *)
(* component id by its segments between '/', the empty or missing string   *)
(* being <<>>; a story id by the parts around its first "--".              *)
(***************************************************************************)
\* number of entries of the story index
MaxEntries == 2

Entry(isNull, id, type, componentId, title, kind, name) ==
  [null |-> isNull, id |-> id, type |-> type, componentId |-> componentId,
   title |-> title, kind |-> kind, name |-> name]

\* the entries a story index is made of: type "none" is an entry without type
EntryPool ==
  { Entry(FALSE, <<"ui-a", "one">>, "story", <<"ui-a">>, <<"UI", "A">>, <<"UI", "A">>, "One"),
    Entry(FALSE, <<"ui-a", "two">>, "story", <<>>, <<"UI", "A">>, <<"UI", "A">>, "Two"),
    Entry(FALSE, <<"ui-a", "docs">>, "docs", <<>>, <<"UI", "A">>, <<"UI", "A">>, "Docs"),
    Entry(FALSE, <<"b", "one">>, "none", <<>>, <<>>, <<"B">>, "One"),
    Entry(FALSE, <<"c", "one">>, "story", <<>>, <<>>, <<>>, "One"),
    Entry(FALSE, <<"", "x">>, "story", <<>>, <<>>, <<>>, "X"),
    Entry(TRUE, <<"n", "null">>, "none", <<>>, <<>>, <<>>, "") }

\* the keys of a JSON object are distinct
DistinctIds(s) == \A k, l \in 1..Len(s) : k # l => s[k].id # s[l].id

DataSets ==
  {s \in UNION {[1..n -> EntryPool] : n \in 0..MaxEntries} : DistinctIds(s)}

\* page.goto of a JSON endpoint: it throws with the page left on the document it
\* showed ("throwStay") or on the new one ("throwNav"), or it answers with a
\* status other than 200, with 200 and a body that is no JSON, with 200 and JSON
\* without the map, or with 200 and the map under entries or under stories
IndexResponses == {"throwStay", "throwNav", "s404", "notJson", "noMap", "entries", "stories"}

StoriesResponses == {"throwStay", "throwNav", "s404", "notJson", "noMap", "stories"}

\* what the window of a Storybook page exposes: the first global that the
\* extraction finds, or only the sidebar, or nothing
Stores == {"none", "storyIndex", "storeJsonData", "legacyJsonData", "previewJsonData",
           "raw", "sidebar"}

Doc(iframe, store) == [iframe |-> iframe, store |-> store]

\* the document of a JSON endpoint or of an error page is no Storybook page
PlainDoc == Doc(FALSE, "none")

IdleResult == [status |-> "none", via |-> "none", components |-> <<>>]

DiscoverIdle ==
  /\ data = <<>>
  /\ indexResp = "s404"
  /\ storiesResp = "none"
  /\ baseDoc = PlainDoc
  /\ dpc = "idle"
  /\ loc = "blank"
  /\ attempted = <<>>
  /\ dBrowser = "none"
  /\ dResult = IdleResult

Init == ServerInit /\ DiscoverIdle /\ RestIdle

(***************************************************************************)
(* The grouping of stories into components (components.ts)                 *)
(***************************************************************************)
\* a || b || c on strings: the first that is not empty
Or3(a, b, c) == IF a # <<>> THEN a ELSE IF b # <<>> THEN b ELSE c

\* (s).split('/').pop() || 'Unknown'
LastSegment(s) ==
  IF s = <<>> \/ s[Len(s)] = "" THEN "Unknown" ELSE s[Len(s)]

\* id.split('--')[0]
IdPrefix(id) == IF id[1] = "" THEN <<>> ELSE <<id[1]>>

Variant(e) == [id |-> e.id, name |-> e.name]

\* components[componentId] is created on its first story, and the story is pushed
\* to its variants; Object.values keeps the order of creation
AddVariant(comps, cid, cname, cpath, v) ==
  IF \E k \in 1..Len(comps) : comps[k].id = cid
    THEN [k \in 1..Len(comps) |->
            IF comps[k].id = cid
              THEN [comps[k] EXCEPT !.variants = Append(@, v)]
              ELSE comps[k]]
    ELSE Append(comps, [id |-> cid, name |-> cname, path |-> cpath, variants |-> <<v>>])

\* the forEach of the index.json path on one entry
IndexStep(comps, e) ==
  IF e.type # "none" /\ e.type # "story" THEN comps
  ELSE LET cid == Or3(e.componentId, e.title, IdPrefix(e.id))
       IN IF cid = <<>> THEN comps
          ELSE AddVariant(comps, cid, LastSegment(e.title), Or3(e.title, cid, cid),
                          Variant(e))

\* the forEach of the stories.json path on one story
StoriesStep(comps, e) ==
  LET cid == Or3(e.componentId, e.kind, e.title)
  IN IF cid = <<>> THEN comps
     ELSE AddVariant(comps, cid, LastSegment(Or3(e.title, e.kind, <<>>)),
                     Or3(e.title, e.kind, cid), Variant(e))

\* the forEach of the in-page path on one story
InPageStep(comps, e) ==
  IF e.null THEN comps
  ELSE LET cid == Or3(e.componentId, e.kind, e.title)
       IN IF cid = <<>> THEN comps
          ELSE AddVariant(comps, cid, LastSegment(Or3(e.title, e.kind, <<>>)),
                          Or3(e.title, e.kind, cid), Variant(e))

RECURSIVE GroupIndex(_, _)
GroupIndex(comps, s) ==
  IF s = <<>> THEN comps ELSE GroupIndex(IndexStep(comps, Head(s)), Tail(s))

RECURSIVE GroupStories(_, _)
GroupStories(comps, s) ==
  IF s = <<>> THEN comps ELSE GroupStories(StoriesStep(comps, Head(s)), Tail(s))

RECURSIVE GroupInPage(_, _)
GroupInPage(comps, s) ==
  IF s = <<>> THEN comps ELSE GroupInPage(InPageStep(comps, Head(s)), Tail(s))

\* entry.type and story.componentId of a null entry are a TypeError
HasNull(s) == \E k \in 1..Len(s) : s[k].null

IsTypedStory(e) == e.type = "story"

\* the story taken from an entry of storyIndex.entries
FromStoryIndex(e) ==
  Entry(FALSE, e.id, "none", e.componentId, e.title, e.title, e.name)

\* the story taken from a sidebar node: the id of its parent is title and kind
FromSidebar(e) ==
  Entry(FALSE, e.id, "none", <<>>, IdPrefix(e.id), IdPrefix(e.id), e.name)

\* the sidebar shows a node of type story for every story of the index
IsSidebarStory(e) == ~e.null /\ e.type # "docs"

\* the stories the evaluated script reads in a document, or the error it returns
Extract(doc, s) ==
  CASE doc.store = "storyIndex" ->
         IF HasNull(s) THEN [error |-> TRUE, stories |-> <<>>]
         ELSE LET kept == SelectSeq(s, IsTypedStory)
              IN [error |-> FALSE,
                  stories |-> [k \in 1..Len(kept) |-> FromStoryIndex(kept[k])]]
    [] doc.store \in {"storeJsonData", "legacyJsonData", "previewJsonData", "raw"} ->
         [error |-> FALSE, stories |-> s]
    [] doc.store = "sidebar" ->
         LET nodes == SelectSeq(s, IsSidebarStory)
         IN IF nodes = <<>> THEN [error |-> TRUE, stories |-> <<>>]
            ELSE [error |-> FALSE,
                  stories |-> [k \in 1..Len(nodes) |-> FromSidebar(nodes[k])]]
    [] OTHER -> [error |-> TRUE, stories |-> <<>>]

(***************************************************************************)
(* getComponents (components.ts)                                           *)
(***************************************************************************)
\* the document the page of the discovery shows
CurDoc == IF loc = "base" THEN baseDoc ELSE PlainDoc

\* the return or the throw of getComponents, after browser.close() of the finally
Done(status, via, comps) ==
  /\ dpc' = "done"
  /\ dBrowser' = "closed"
  /\ dResult' = [status |-> status, via |-> via, components |-> comps]

\* getComponents goes on to its next await
DGoto(l) ==
  /\ dpc' = l
  /\ UNCHANGED <<dBrowser, dResult>>

\* chromium.launch(), newContext() and newPage() of the discovery
DLaunch ==
  /\ dpc = "idle"
  /\ dpc' = "gotoBase"
  /\ dBrowser' = "open"
  /\ UNCHANGED <<data, indexResp, storiesResp, baseDoc, loc, attempted, dResult>>
  /\ UNCHANGED <<srvVars, restVars>>

\* page.goto(storybookUrl): it throws, or the page shows the document served
GotoBase(ok, doc) ==
  /\ dpc = "gotoBase"
  /\ IF ok
       THEN baseDoc' = doc /\ loc' = "base" /\ DGoto("waitIframe")
       ELSE UNCHANGED <<baseDoc, loc>> /\ Done("error", "none", <<>>)
  /\ UNCHANGED <<data, indexResp, storiesResp, attempted>>
  /\ UNCHANGED <<srvVars, restVars>>

\* waitForSelector of the preview iframe, 'Could not find Storybook iframe' if
\* it is not attached in time
WaitIframe ==
  /\ dpc = "waitIframe"
  /\ IF CurDoc.iframe
       THEN DGoto("fetchIndex")
       ELSE Done("error", "none", <<>>)
  /\ UNCHANGED <<data, indexResp, storiesResp, baseDoc, loc, attempted>>
  /\ UNCHANGED <<srvVars, restVars>>

\* page.goto of index.json inside the try: with status 200 and a map the
\* components grouped from it are returned; a status other than 200 or a missing
\* map goes on to stories.json; every throw (the navigation, json(), a null
\* entry) lands in the catch, after which the in-page extraction follows
FetchIndex ==
  /\ dpc = "fetchIndex"
  /\ attempted' = Append(attempted, "index")
  /\ loc' = IF indexResp = "throwStay" THEN loc ELSE "index"
  /\ IF indexResp \in {"entries", "stories"} /\ ~HasNull(data)
       THEN Done("ok", "index", GroupIndex(<<>>, data))
       ELSE IF indexResp \in {"s404", "noMap"}
              THEN DGoto("fetchStories")
              ELSE DGoto("inPage")
  /\ UNCHANGED <<data, indexResp, storiesResp, baseDoc>>
  /\ UNCHANGED <<srvVars, restVars>>

\* page.goto of stories.json inside the same try: with status 200 and a stories
\* map the components grouped from it are returned; everything else, thrown or
\* not, goes on to the in-page extraction
FetchStories(r) ==
  /\ dpc = "fetchStories"
  /\ storiesResp' = r
  /\ attempted' = Append(attempted, "stories")
  /\ loc' = IF r = "throwStay" THEN loc ELSE "stories"
  /\ IF r = "stories" /\ ~HasNull(data)
       THEN Done("ok", "stories", GroupStories(<<>>, data))
       ELSE DGoto("inPage")
  /\ UNCHANGED <<data, indexResp, baseDoc>>
  /\ UNCHANGED <<srvVars, restVars>>

\* the in-page extraction on the document the page shows now: the iframe is
\* awaited again ('Storybook iframe not found'), the script is evaluated, and
\* an error it returns is thrown ('Failed to extract components')
InPage ==
  /\ dpc = "inPage"
  /\ attempted' = Append(attempted, "inpage")
  /\ IF ~CurDoc.iframe
       THEN Done("error", "inpage", <<>>)
       ELSE LET x == Extract(CurDoc, data)
            IN IF x.error
                 THEN Done("error", "inpage", <<>>)
                 ELSE Done("ok", "inpage", GroupInPage(<<>>, x.stories))
  /\ UNCHANGED <<data, indexResp, storiesResp, baseDoc, loc>>
  /\ UNCHANGED <<srvVars, restVars>>

\* a discovery against any story index and any answer of index.json
InitDiscover ==
  /\ ServerInit
  /\ RestIdle
  /\ data \in DataSets
  /\ indexResp \in IndexResponses
  /\ storiesResp = "none"
  /\ baseDoc = PlainDoc
  /\ dpc = "idle"
  /\ loc = "blank"
  /\ attempted = <<>>
  /\ dBrowser = "none"
  /\ dResult = IdleResult

NextDiscover ==
  \/ DLaunch
  \/ \E ok \in BOOLEAN, iframe \in BOOLEAN, store \in Stores : GotoBase(ok, Doc(iframe, store))
  \/ WaitIframe
  \/ FetchIndex
  \/ \E r \in StoriesResponses : FetchStories(r)
  \/ InPage

SpecDiscover == InitDiscover /\ [][NextDiscover]_vars

(***************************************************************************)
(* Strings (unnamed/part_013, storybook/screenshot.ts)                     *)
(*                                                                         *)
(* A string is the sequence of its characters, a character a string of     *)
(* length one.                                                             *)
(***************************************************************************)
\* longest component string given to getComponentUrl
MaxComponentLen == 3
\* longest variant string given to getComponentUrl
MaxVariantLen == 2

\* the strings over an alphabet up to a length
StringsOver(chars, n) == UNION {[1..k -> chars] : k \in 0..n}

\* the letters that String.prototype.toLowerCase changes, and what it makes of them
UpperCase == <<"A", "B", "D", "P", "É">>
LowerCase == <<"a", "b", "d", "p", "é">>

\* the class \w of a regular expression: ASCII letters, digits and "_"
WordChars ==
  {"A", "B", "D", "O", "P", "a", "b", "c", "d", "e", "f", "i", "j", "k", "l", "m", "n",
   "o", "p", "r", "s", "t", "u", "y", "z", "0", "1", "2", "3", "4", "5", "6", "7", "8",
   "9", "_"}

\* the class \s of a regular expression, also what String.prototype.trim strips
SpaceChars == {" ", "\t"}

ToLowerChar(c) ==
  IF \E k \in 1..Len(UpperCase) : UpperCase[k] = c
    THEN LowerCase[CHOOSE k \in 1..Len(UpperCase) : UpperCase[k] = c]
    ELSE c

\* s.toLowerCase()
ToLowerCase(s) == [k \in 1..Len(s) |-> ToLowerChar(s[k])]

RECURSIVE TrimStart(_)
TrimStart(s) ==
  IF s # <<>> /\ Head(s) \in SpaceChars THEN TrimStart(Tail(s)) ELSE s

RECURSIVE TrimEnd(_)
TrimEnd(s) ==
  IF s # <<>> /\ s[Len(s)] \in SpaceChars THEN TrimEnd(SubSeq(s, 1, Len(s) - 1)) ELSE s

\* s.trim()
Trim(s) == TrimEnd(TrimStart(s))

\* s.replace(/\s+/g, '-'): every run of whitespace becomes one hyphen
RECURSIVE ReplaceSpaceRuns(_)
ReplaceSpaceRuns(s) ==
  IF s = <<>> THEN <<>>
  ELSE IF Head(s) \in SpaceChars
         THEN <<"-">> \o ReplaceSpaceRuns(TrimStart(s))
         ELSE <<Head(s)>> \o ReplaceSpaceRuns(Tail(s))

IsWordOrHyphen(c) == c \in WordChars \/ c = "-"

\* s.replace(/[^\w-]/g, '')
RemoveNonWord(s) == SelectSeq(s, IsWordOrHyphen)

\* s.replace(/\//g, '-')
ReplaceSlashes(s) == [k \in 1..Len(s) |-> IF s[k] = "/" THEN "-" ELSE s[k]]

\* s.includes('--')
IncludesSeparator(s) == \E k \in 1..(Len(s) - 1) : s[k] = "-" /\ s[k + 1] = "-"

Separator == <<"-", "-">>

DefaultSlug == <<"d", "e", "f", "a", "u", "l", "t">>

DocsName == <<"d", "o", "c", "s">>

\* prepareForStorybookUrl: 'default' for the empty string, else the string in
\* lower case, whitespace runs replaced, other characters removed, trimmed
prepareForStorybookUrl(s) ==
  IF s = <<>> THEN DefaultSlug
  ELSE Trim(RemoveNonWord(ReplaceSpaceRuns(ToLowerCase(s))))

(***************************************************************************)
(* getComponentUrl (storybook/screenshot.ts)                               *)
(***************************************************************************)
\* a getComponentUrl that takes a component with a separator as it is
getComponentUrl_AsIs(c, v) ==
  IF c = <<>> THEN [storyId |-> <<>>, urlPath |-> "none"]
  ELSE LET normalizedComponent == Trim(c)
           formattedComponent == ReplaceSlashes(ToLowerCase(normalizedComponent))
       IN IF IncludesSeparator(normalizedComponent)
            THEN [storyId |-> c, urlPath |-> "story"]
            ELSE IF v # <<>> /\ Trim(v) # <<>>
                   THEN [storyId |-> formattedComponent \o Separator
                                       \o prepareForStorybookUrl(v),
                         urlPath |-> "story"]
                   ELSE [storyId |-> formattedComponent \o Separator \o DocsName,
                         urlPath |-> "docs"]

\* getComponentUrl: the storyId and the path of the componentUrl
\* ({baseUrl}?path=/{urlPath}/{storyId}); an empty component gives the empty
\* storyId and the bare storybookUrl
getComponentUrl(c, v) ==
  IF c = <<>> THEN [storyId |-> <<>>, urlPath |-> "none"]
  ELSE LET normalizedComponent == Trim(c)
           formattedComponent == ReplaceSlashes(ToLowerCase(normalizedComponent))
       IN IF IncludesSeparator(normalizedComponent)
            THEN [storyId |-> formattedComponent, urlPath |-> "story"]
            ELSE IF v # <<>> /\ Trim(v) # <<>>
                   THEN [storyId |-> formattedComponent \o Separator
                                       \o prepareForStorybookUrl(v),
                         urlPath |-> "story"]
                   ELSE [storyId |-> formattedComponent \o Separator \o DocsName,
                         urlPath |-> "docs"]

\* the characters of the component and variant strings tried
ComponentChars == {"A", "/", "-", " "}

VariantChars == {"A", " ", "!", "-"}

\* the call of getComponentUrl in captureComponent
ResolveStoryId ==
  /\ upc = "idle"
  /\ upc' = "done"
  /\ storyId' = getComponentUrl(component, variant).storyId
  /\ urlPath' = getComponentUrl(component, variant).urlPath
  /\ UNCHANGED <<component, variant>>
  /\ UNCHANGED <<srvVars, dVars, slugVars, argsVars, bodyVars, fileVars, nameVars,
                 probeVars, retryVars, domVars, checkerVars, testVars>>

\* a capture of any component and any variant
InitUrl ==
  /\ ServerInit
  /\ DiscoverIdle
  /\ SlugIdle
  /\ ArgsIdle
  /\ BodyIdle
  /\ FilesIdle
  /\ NamesIdle
  /\ ProbeIdle
  /\ RetryIdle
  /\ DomIdle
  /\ CheckerIdle
  /\ TestIdle
  /\ component \in StringsOver(ComponentChars, MaxComponentLen)
  /\ variant \in StringsOver(VariantChars, MaxVariantLen)
  /\ storyId = <<>>
  /\ urlPath = "none"
  /\ upc = "idle"

NextUrl == ResolveStoryId

SpecUrl == InitUrl /\ [][NextUrl]_vars

(***************************************************************************)
(* prepareForStorybookUrl applied twice (unnamed/part_013)                 *)
(***************************************************************************)
\* longest string given to prepareForStorybookUrl, the name below apart
MaxStrLen == 3

\* the characters of the strings tried
SlugChars == {"A", "a", " ", "-", "_", "!", "É"}

PrimaryButton == <<"P", "r", "i", "m", "a", "r", "y", " ", "B", "u", "t", "t", "o", "n">>

\* prepareForStorybookUrl(str)
Prepare ==
  /\ spc = "idle"
  /\ spc' = "once"
  /\ prepared' = prepareForStorybookUrl(str)
  /\ UNCHANGED <<str, reprepared>>
  /\ UNCHANGED <<srvVars, dVars, urlVars, argsVars, bodyVars, fileVars, nameVars,
                 probeVars, retryVars, domVars, checkerVars, testVars>>

\* prepareForStorybookUrl(prepared)
PrepareAgain ==
  /\ spc = "once"
  /\ spc' = "twice"
  /\ reprepared' = prepareForStorybookUrl(prepared)
  /\ UNCHANGED <<str, prepared>>
  /\ UNCHANGED <<srvVars, dVars, urlVars, argsVars, bodyVars, fileVars, nameVars,
                 probeVars, retryVars, domVars, checkerVars, testVars>>

InitSlug ==
  /\ ServerInit
  /\ DiscoverIdle
  /\ UrlIdle
  /\ ArgsIdle
  /\ BodyIdle
  /\ FilesIdle
  /\ NamesIdle
  /\ ProbeIdle
  /\ RetryIdle
  /\ DomIdle
  /\ CheckerIdle
  /\ TestIdle
  /\ str \in StringsOver(SlugChars, MaxStrLen) \cup {PrimaryButton}
  /\ prepared = <<>>
  /\ reprepared = <<>>
  /\ spc = "idle"

NextSlug == Prepare \/ PrepareAgain

SpecSlug == InitSlug /\ [][NextSlug]_vars

(***************************************************************************)
(* formatArgsForUrl (unnamed/part_013)                                     *)
(*                                                                         *)
(* A JSON value is a record of its type t and, by type, its boolean b, its *)
(* number n, its characters s, or its items: the elements of an array, the *)
(* values of the properties "a", "b", ... of an object.                    *)
(***************************************************************************)
\* most entries of an args object
MaxArgs == 2
\* longest string value of an arg
MaxArgLen == 3
\* most elements of an array value and most properties of an object value
MaxItems == 1

Value(t, b, n, s, items) == [t |-> t, b |-> b, n |-> n, s |-> s, items |-> items]

BooleanValue(b) == Value("boolean", b, 0, <<>>, <<>>)
NumberValue(n) == Value("number", FALSE, n, <<>>, <<>>)
StringValue(s) == Value("string", FALSE, 0, s, <<>>)
NullValue == Value("null", FALSE, 0, <<>>, <<>>)
UndefinedValue == Value("undefined", FALSE, 0, <<>>, <<>>)
ArrayValue(items) == Value("array", FALSE, 0, <<>>, items)
ObjectValue(items) == Value("object", FALSE, 0, <<>>, items)

Digits == <<"0", "1", "2", "3", "4", "5", "6", "7", "8", "9">>

\* value.toString() of a natural number
RECURSIVE NumberToString(_)
NumberToString(n) ==
  IF n < 10 THEN <<Digits[n + 1]>>
  ELSE NumberToString(n \div 10) \o <<Digits[(n % 10) + 1]>>

PropertyNames == <<"a", "b", "c">>

\* the elements of an array, or the properties of an object, separated by commas
RECURSIVE JoinItems(_, _, _)
JoinItems(items, k, named) ==
  IF k > Len(items) THEN <<>>
  ELSE (IF k > 1 THEN <<",">> ELSE <<>>)
       \o (IF named THEN <<"\"", PropertyNames[k], "\"", ":">> ELSE <<>>)
       \o NumberToString(items[k])
       \o JoinItems(items, k + 1, named)

\* JSON.stringify of an array of numbers and of an object of numbers
Stringify(value) ==
  IF value.t = "array"
    THEN <<"[">> \o JoinItems(value.items, 1, FALSE) \o <<"]">>
    ELSE <<"{">> \o JoinItems(value.items, 1, TRUE) \o <<"}">>

\* the serializedValue of one entry
SerializedValue(value) ==
  CASE value.t = "boolean" ->
         IF value.b THEN <<"!", "t", "r", "u", "e">> ELSE <<"!", "f", "a", "l", "s", "e">>
    [] value.t = "number" -> NumberToString(value.n)
    [] value.t = "string" -> value.s
    [] value.t = "null" -> <<"!", "n", "u", "l", "l">>
    [] value.t \in {"array", "object"} -> <<"!">> \o Stringify(value)
    [] OTHER -> <<"u", "n", "d", "e", "f", "i", "n", "e", "d">>

\* argParts.join(';') from the k-th entry on
RECURSIVE JoinArgParts(_, _)
JoinArgParts(entries, k) ==
  IF k > Len(entries) THEN <<>>
  ELSE (IF k > 1 THEN <<";">> ELSE <<>>)
       \o entries[k].key \o <<":">> \o SerializedValue(entries[k].value)
       \o JoinArgParts(entries, k + 1)

\* formatArgsForUrl: '' for no args, else '&args=' and the serialized entries
formatArgsForUrl(entries) ==
  IF entries = <<>> THEN <<>>
  ELSE <<"&", "a", "r", "g", "s", "=">> \o JoinArgParts(entries, 1)

\* the characters of the string values tried
ArgChars == {"!", "[", "]"}

ArgStrings == StringsOver(ArgChars, MaxArgLen)

ItemLists == UNION {[1..k -> 0..1] : k \in 0..MaxItems}

ArgValues ==
  {BooleanValue(b) : b \in BOOLEAN} \cup {NumberValue(n) : n \in {0, 12}}
  \cup {StringValue(s) : s \in ArgStrings} \cup {NullValue, UndefinedValue}
  \cup {ArrayValue(l) : l \in ItemLists} \cup {ObjectValue(l) : l \in ItemLists}

ArgKeys == {<<"k">>, <<"s", "z">>}

ArgEntries == [key : ArgKeys, value : ArgValues]

\* the args objects tried: the keys of an object are distinct
ArgObjects ==
  {e \in UNION {[1..k -> ArgEntries] : k \in 0..MaxArgs} :
     \A i, j \in 1..Len(e) : i # j => e[i].key # e[j].key}

\* the call of formatArgsForUrl in captureComponent
FormatArgs ==
  /\ apc = "idle"
  /\ apc' = "done"
  /\ argsString' = formatArgsForUrl(args)
  /\ UNCHANGED args
  /\ UNCHANGED <<srvVars, dVars, urlVars, slugVars, bodyVars, fileVars, nameVars,
                 probeVars, retryVars, domVars, checkerVars, testVars>>

InitArgs ==
  /\ ServerInit
  /\ DiscoverIdle
  /\ UrlIdle
  /\ SlugIdle
  /\ BodyIdle
  /\ FilesIdle
  /\ NamesIdle
  /\ ProbeIdle
  /\ RetryIdle
  /\ DomIdle
  /\ CheckerIdle
  /\ TestIdle
  /\ args \in ArgObjects
  /\ argsString = <<>>
  /\ apc = "idle"

NextArgs == FormatArgs

SpecArgs == InitArgs /\ [][NextArgs]_vars

(***************************************************************************)
(* The try block of captureComponent in detail (storybook/screenshot.ts,   *)
(* storybook/variant-selection.ts, unnamed/part_011): one capture, from    *)
(* context.newPage() to the finally.  The document that the story URL      *)
(* shows and the outcome of every browser operation are inputs.            *)
(***************************************************************************)
\* the document shown at the story URL: a preview iframe exists, its content
\* frame can be obtained, a root container exists where the queries look (in
\* the frame, or on the page when there is no iframe), and an element matches
\* the selectors of the component there
Doms == [iframe : BOOLEAN, frame : BOOLEAN, root : BOOLEAN, child : BOOLEAN]

\* what a step of the try block leaves alone
BodyFrame ==
  UNCHANGED <<srvVars, dVars, urlVars, slugVars, argsVars, fileVars, nameVars,
              probeVars, retryVars, domVars, checkerVars, testVars>>

\* a throw inside the try block: the catch logs and rethrows, the finally follows
BThrow(f) ==
  /\ bfault' = f
  /\ bpc' = "finally"

\* the try block goes on to its next await
BGoto(l) ==
  /\ bpc' = l
  /\ UNCHANGED bfault

\* response.status() >= 400 or no response: 'Failed to navigate to component'
NavigationFailed(r) == r.kind # "status" \/ r.status >= 400

\* waitForIframeLoad when no wait times out and nothing throws
IframeLoads == dom.iframe /\ dom.frame /\ dom.child

\* the classes added when only the first requested flag is handled
MarkerClasses_FirstOnly(s) ==
  IF s.hover THEN {"sb-pseudo-hover"}
  ELSE IF s.focus THEN {"sb-pseudo-focus"}
  ELSE IF s.active THEN {"sb-pseudo-active"} ELSE {}

\* the classes added for the flags of a state
MarkerClasses(s) ==
  (IF s.hover THEN {"sb-pseudo-hover"} ELSE {})
  \cup (IF s.focus THEN {"sb-pseudo-focus"} ELSE {})
  \cup (IF s.active THEN {"sb-pseudo-active"} ELSE {})

\* the classes that are added up to the call of focus() on the element
ClassesUpToFocus(s) ==
  (IF s.hover THEN {"sb-pseudo-hover"} ELSE {})
  \cup (IF s.focus THEN {"sb-pseudo-focus"} ELSE {})

\* !state || (!state.hover && !state.focus && !state.active)
NoStateRequested(s) == ~s.hover /\ ~s.focus /\ ~s.active

\* const page = await context.newPage()
OpenPage ==
  /\ bpc = "idle"
  /\ page' = "open"
  /\ BGoto("base")
  /\ UNCHANGED <<dom, state, response, iframeLoaded, variantSelected, variantVerified,
                 stateScript, classes, found, tier, screenshot, fileWritten,
                 captureResult>>
  /\ BodyFrame

\* setViewportSize, page.goto(storybookUrl), detectStorybookVersion (which catches
\* its errors) and getComponentUrl: a throw of the first two ends the try block
VisitStorybook(ok) ==
  /\ bpc = "base"
  /\ IF ok THEN BGoto("navigate") ELSE BThrow("base")
  /\ UNCHANGED <<dom, state, page, response, iframeLoaded, variantSelected,
                 variantVerified, stateScript, classes, found, tier, screenshot,
                 fileWritten, captureResult>>
  /\ BodyFrame

\* a navigation that fails only when page.goto throws
NavigateToStory_ThrowOnly(r) ==
  /\ bpc = "navigate"
  /\ response' = r
  /\ IF r.kind = "threw" THEN BThrow("navigate") ELSE BGoto("waitIframe")
  /\ UNCHANGED <<dom, state, page, iframeLoaded, variantSelected, variantVerified,
                 stateScript, classes, found, tier, screenshot, fileWritten,
                 captureResult>>
  /\ BodyFrame

\* page.goto(componentUrl) and the test of the response
NavigateToStory(r) ==
  /\ bpc = "navigate"
  /\ response' = r
  /\ IF NavigationFailed(r) THEN BThrow("navigate") ELSE BGoto("waitIframe")
  /\ UNCHANGED <<dom, state, page, iframeLoaded, variantSelected, variantVerified,
                 stateScript, classes, found, tier, screenshot, fileWritten,
                 captureResult>>
  /\ BodyFrame

\* waitForTimeout(1000) and waitForIframeLoad, which returns false on every
\* timeout and every throw
WaitForIframe(timedOut) ==
  /\ bpc = "waitIframe"
  /\ iframeLoaded' = (~timedOut /\ IframeLoads)
  /\ IF ~timedOut /\ IframeLoads THEN BGoto("selectVariant") ELSE BGoto("checkContent")
  /\ UNCHANGED <<dom, state, page, response, variantSelected, variantVerified,
                 stateScript, classes, found, tier, screenshot, fileWritten,
                 captureResult>>
  /\ BodyFrame

\* page.evaluate of the root and its children on the page, outside every inner
\* try: "has", "hasNot", or "throws"; with a preview iframe the page is the
\* manager page, whose root is not described by dom
CheckContent(o) ==
  /\ bpc = "checkContent"
  /\ (~dom.iframe /\ o # "throws") => (o = "has") = (dom.root /\ dom.child)
  /\ IF o = "throws" THEN BThrow("content")
     ELSE IF o = "has" THEN BGoto("selectVariant") ELSE BGoto("reload")
  /\ UNCHANGED <<dom, state, page, response, iframeLoaded, variantSelected,
                 variantVerified, stateScript, classes, found, tier, screenshot,
                 fileWritten, captureResult>>
  /\ BodyFrame

\* page.reload({waitUntil: 'networkidle'}), waitForTimeout(2000) and
\* waitForIframeLoad, whose result is dropped
Reload(ok) ==
  /\ bpc = "reload"
  /\ IF ok THEN BGoto("selectVariant") ELSE BThrow("reload")
  /\ UNCHANGED <<dom, state, page, response, iframeLoaded, variantSelected,
                 variantVerified, stateScript, classes, found, tier, screenshot,
                 fileWritten, captureResult>>
  /\ BodyFrame

\* a selectVariantInStorybook without its catch
SelectVariant_Rethrows(o) ==
  /\ bpc = "selectVariant"
  /\ variantSelected' = (o = "clicked")
  /\ IF o = "threw" THEN BThrow("select") ELSE BGoto("verifyVariant")
  /\ UNCHANGED <<dom, state, page, response, iframeLoaded, variantVerified,
                 stateScript, classes, found, tier, screenshot, fileWritten,
                 captureResult>>
  /\ BodyFrame

\* selectVariantInStorybook: a matching element was clicked ("clicked"), none
\* was found ("notFound"), or a query or the click threw ("threw")
SelectVariant(o) ==
  /\ bpc = "selectVariant"
  /\ variantSelected' = (o = "clicked")
  /\ BGoto("verifyVariant")
  /\ UNCHANGED <<dom, state, page, response, iframeLoaded, variantVerified,
                 stateScript, classes, found, tier, screenshot, fileWritten,
                 captureResult>>
  /\ BodyFrame

\* verifyVariantLoaded: evidence of the variant under the root ("evidence"), a
\* root with children ("component"), neither ("nothing"), or a throw ("threw");
\* waitForTimeout(1000) follows
VerifyVariant(o) ==
  /\ bpc = "verifyVariant"
  /\ (o \in {"evidence", "component"}) => (dom.root /\ (dom.iframe => dom.frame))
  /\ variantVerified' = (o \in {"evidence", "component"})
  /\ BGoto("applyState")
  /\ UNCHANGED <<dom, state, page, response, iframeLoaded, variantSelected,
                 stateScript, classes, found, tier, screenshot, fileWritten,
                 captureResult>>
  /\ BodyFrame

\* applyComponentState: nothing without a true flag; else the script of
\* applyStateToFrame is evaluated in the frame or on the page: it runs to its
\* end ("ran"), it throws before it changes anything ("threw"), or the call of
\* focus() on the element throws ("focusThrew"); the hover that follows and
\* every throw are caught
ApplyState(o) ==
  /\ bpc = "applyState"
  /\ (o = "focusThrew") => (dom.child /\ state.focus)
  /\ IF NoStateRequested(state)
       THEN stateScript' = "skipped" /\ UNCHANGED classes
       ELSE IF o = "threw"
              THEN stateScript' = "threw" /\ UNCHANGED classes
              ELSE IF ~dom.child
                     THEN stateScript' = "noElement" /\ UNCHANGED classes
                     ELSE IF o = "focusThrew"
                            THEN /\ stateScript' = "threw"
                                 /\ classes' = classes \cup ClassesUpToFocus(state)
                            ELSE /\ stateScript' = "ran"
                                 /\ classes' = classes \cup MarkerClasses(state)
  /\ BGoto("findComponent")
  /\ UNCHANGED <<dom, state, page, response, iframeLoaded, variantSelected,
                 variantVerified, found, tier, screenshot, fileWritten, captureResult>>
  /\ BodyFrame

\* findComponentElement: the element of the first matching selector, in the
\* frame when there is a preview iframe; null when nothing matches, when the
\* frame cannot be obtained and when anything throws
FindComponent(threw) ==
  /\ bpc = "findComponent"
  /\ found' = (~threw /\ dom.child /\ (dom.iframe => dom.frame))
  /\ BGoto("screenshot")
  /\ UNCHANGED <<dom, state, page, response, iframeLoaded, variantSelected,
                 variantVerified, stateScript, classes, tier, screenshot, fileWritten,
                 captureResult>>
  /\ BodyFrame

\* a screenshotComponent that goes from the component straight to the page
TakeScreenshot_PageWhenNotFound(ok) ==
  /\ bpc = "screenshot"
  /\ tier' = IF found THEN "component" ELSE "page"
  /\ screenshot' = IF ok THEN "buffer" ELSE IF found THEN "null" ELSE "none"
  /\ IF ok THEN BGoto("write") ELSE BThrow("screenshot")
  /\ UNCHANGED <<dom, state, page, response, iframeLoaded, variantSelected,
                 variantVerified, stateScript, classes, found, fileWritten,
                 captureResult>>
  /\ BodyFrame

\* the rest of screenshotComponent and the test of its result: the screenshot
\* of the component, whose failure gives null and the throw of
\* 'Failed to capture component screenshot'; without a component the
\* screenshot of the root in the frame, of the iframe, or of the page, whose
\* failure is thrown as it is
TakeScreenshot(ok) ==
  /\ bpc = "screenshot"
  /\ tier' = IF found THEN "component"
             ELSE IF dom.iframe
                    THEN (IF dom.frame /\ dom.root THEN "root" ELSE "iframe")
                    ELSE "page"
  /\ screenshot' = IF ok THEN "buffer" ELSE IF found THEN "null" ELSE "none"
  /\ IF ok THEN BGoto("write") ELSE BThrow("screenshot")
  /\ UNCHANGED <<dom, state, page, response, iframeLoaded, variantSelected,
                 variantVerified, stateScript, classes, found, fileWritten,
                 captureResult>>
  /\ BodyFrame

\* the file name and fs.writeFile(filePath, screenshot)
WriteScreenshot(ok) ==
  /\ bpc = "write"
  /\ fileWritten' = ok
  /\ IF ok THEN BGoto("finally") ELSE BThrow("write")
  /\ UNCHANGED <<dom, state, page, response, iframeLoaded, variantSelected,
                 variantVerified, stateScript, classes, found, tier, screenshot,
                 captureResult>>
  /\ BodyFrame

\* finally { await page.close() }, then the return of the CaptureResult or the
\* rethrow
ClosePage ==
  /\ bpc = "finally"
  /\ bpc' = "done"
  /\ page' = "closed"
  /\ captureResult' = [success |-> bfault = "none", screenshotPath |-> bfault = "none",
                       thrown |-> bfault # "none"]
  /\ UNCHANGED bfault
  /\ UNCHANGED <<dom, state, response, iframeLoaded, variantSelected, variantVerified,
                 stateScript, classes, found, tier, screenshot, fileWritten, bfault>>
  /\ BodyFrame

\* a capture of any document in any state
InitBody ==
  /\ ServerInit
  /\ DiscoverIdle
  /\ UrlIdle
  /\ SlugIdle
  /\ ArgsIdle
  /\ FilesIdle
  /\ NamesIdle
  /\ ProbeIdle
  /\ RetryIdle
  /\ DomIdle
  /\ CheckerIdle
  /\ TestIdle
  /\ dom \in Doms
  /\ state \in States
  /\ bpc = "idle"
  /\ page = "none"
  /\ response = Response("none", 0)
  /\ iframeLoaded = FALSE
  /\ variantSelected = FALSE
  /\ variantVerified = FALSE
  /\ stateScript = "none"
  /\ classes = {}
  /\ found = FALSE
  /\ tier = "none"
  /\ screenshot = "none"
  /\ fileWritten = FALSE
  /\ bfault = "none"
  /\ captureResult = NoResult

NextBody ==
  \/ OpenPage
  \/ \E ok \in BOOLEAN : VisitStorybook(ok)
  \/ \E r \in Responses : NavigateToStory(r)
  \/ \E timedOut \in BOOLEAN : WaitForIframe(timedOut)
  \/ \E o \in {"has", "hasNot", "throws"} : CheckContent(o)
  \/ \E ok \in BOOLEAN : Reload(ok)
  \/ \E o \in {"clicked", "notFound", "threw"} : SelectVariant(o)
  \/ \E o \in {"evidence", "component", "nothing", "threw"} : VerifyVariant(o)
  \/ \E o \in {"ran", "threw", "focusThrew"} : ApplyState(o)
  \/ \E threw \in BOOLEAN : FindComponent(threw)
  \/ \E ok \in BOOLEAN : TakeScreenshot(ok)
  \/ \E ok \in BOOLEAN : WriteScreenshot(ok)
  \/ ClosePage

SpecBody == InitBody /\ [][NextBody]_vars

(***************************************************************************)
(* The file name and the write of captureComponent, for captures with      *)
(* identical component, variant, state and viewport                        *)
(* (storybook/screenshot.ts).  Their file names differ in the timestamp    *)
(* only, so a file name is held as its timestamp.                          *)
(***************************************************************************)
\* what a step of these captures leaves alone
FilesFrame ==
  UNCHANGED <<srvVars, dVars, urlVars, slugVars, argsVars, bodyVars, nameVars,
              probeVars, retryVars, domVars, checkerVars, testVars>>

\* a millisecond passes
Tick ==
  /\ now < MaxClock
  /\ now' = now + 1
  /\ UNCHANGED <<ipc, startedAt, filename, files, replaced>>
  /\ FilesFrame

\* captureComponent is called
Invoke(i) ==
  /\ ipc[i] = "idle"
  /\ ipc' = [ipc EXCEPT ![i] = "capturing"]
  /\ startedAt' = [startedAt EXCEPT ![i] = now]
  /\ UNCHANGED <<now, filename, files, replaced>>
  /\ FilesFrame

\* the capture up to the write: its waits (waitForTimeout(1000) twice) have
\* taken time; then new Date().toISOString() gives the timestamp of the file
\* name and fs.writeFile is called
NameFile(i) ==
  /\ ipc[i] = "capturing"
  /\ now > startedAt[i]
  /\ filename' = [filename EXCEPT ![i] = now]
  /\ ipc' = [ipc EXCEPT ![i] = "writing"]
  /\ UNCHANGED <<now, startedAt, files, replaced>>
  /\ FilesFrame

\* fs.writeFile(filePath, screenshot) creates the file or replaces its content
WriteFile(i) ==
  /\ ipc[i] = "writing"
  /\ files' = [files EXCEPT ![filename[i]] = i]
  /\ replaced' = IF files[filename[i]] \notin {0, i}
                   THEN replaced \cup {files[filename[i]]}
                   ELSE replaced
  /\ ipc' = [ipc EXCEPT ![i] = "done"]
  /\ UNCHANGED <<now, startedAt, filename>>
  /\ FilesFrame

InitFiles ==
  /\ ServerInit
  /\ DiscoverIdle
  /\ UrlIdle
  /\ SlugIdle
  /\ ArgsIdle
  /\ BodyIdle
  /\ FilesIdle
  /\ NamesIdle
  /\ ProbeIdle
  /\ RetryIdle
  /\ DomIdle
  /\ CheckerIdle
  /\ TestIdle

NextFiles ==
  \/ Tick
  \/ \E i \in Invocations : Invoke(i)
  \/ \E i \in Invocations : NameFile(i)
  \/ \E i \in Invocations : WriteFile(i)

SpecFiles == InitFiles /\ [][NextFiles]_vars

(***************************************************************************)
(* The file name of captureComponent (storybook/screenshot.ts)             *)
(***************************************************************************)
\* longest component string of a capture
MaxNameLen == 1
\* most entries of the args of a capture
MaxNameArgs == 1
\* the milliseconds of the clock of a capture
NameClocks == {0, 1}

\* getStateString: 'default' without a true flag, else the true flags joined by '-'
getStateString(s) ==
  IF ~s.hover /\ ~s.focus /\ ~s.active
    THEN DefaultSlug
    ELSE LET h == IF s.hover THEN <<"h", "o", "v", "e", "r">> ELSE <<>>
             f == IF s.focus THEN <<"f", "o", "c", "u", "s">> ELSE <<>>
             a == IF s.active THEN <<"a", "c", "t", "i", "v", "e">> ELSE <<>>
         IN h \o (IF h # <<>> /\ f # <<>> THEN <<"-">> ELSE <<>>) \o f
              \o (IF (h # <<>> \/ f # <<>>) /\ a # <<>> THEN <<"-">> ELSE <<>>) \o a

\* `${viewport.width}x${viewport.height}`
ViewportString(v) == NumberToString(v.width) \o <<"x">> \o NumberToString(v.height)

\* a number in two digits (padStart(2, '0'))
TwoDigits(n) == <<Digits[(n \div 10) + 1], Digits[(n % 10) + 1]>>

\* new Date().toISOString() at t milliseconds after a full minute: the seconds
\* and the milliseconds of 'YYYY-MM-DDTHH:mm:ss.sssZ', the part that two
\* captures of one minute differ in
ToISOString(t) ==
  <<"T", "0", "0", ":", "0", "0", ":">> \o TwoDigits((t \div 1000) % 60)
    \o <<".", Digits[((t \div 100) % 10) + 1]>> \o TwoDigits(t % 100) \o <<"Z">>

\* s.replace(/[:.]/g, '-')
ReplaceColonsAndDots(s) ==
  [k \in 1..Len(s) |-> IF s[k] \in {":", "."} THEN "-" ELSE s[k]]

\* a sanitizing that leaves the storyId as it is
SanitizeStoryId_AsIs(s) == s

\* storyId.replace(/[\/\\]/g, '_')
SanitizeStoryId(s) ==
  [k \in 1..Len(s) |-> IF s[k] \in {"/", "\\"} THEN "_" ELSE s[k]]

\* `${value}`: the string of a value in a template literal
TemplateString(value) ==
  CASE value.t = "boolean" ->
         IF value.b THEN <<"t", "r", "u", "e">> ELSE <<"f", "a", "l", "s", "e">>
    [] value.t = "number" -> NumberToString(value.n)
    [] value.t = "string" -> value.s
    [] value.t = "null" -> <<"n", "u", "l", "l">>
    [] value.t = "array" -> JoinItems(value.items, 1, FALSE)
    [] value.t = "object" ->
         <<"[", "o", "b", "j", "e", "c", "t", " ", "O", "b", "j", "e", "c", "t", "]">>
    [] OTHER -> <<"u", "n", "d", "e", "f", "i", "n", "e", "d">>

\* the entries as `${key}_${value}`, joined by '_', from the k-th entry on
RECURSIVE JoinHashParts(_, _)
JoinHashParts(entries, k) ==
  IF k > Len(entries) THEN <<>>
  ELSE (IF k > 1 THEN <<"_">> ELSE <<>>)
       \o entries[k].key \o <<"_">> \o TemplateString(entries[k].value)
       \o JoinHashParts(entries, k + 1)

\* longest argsHash
ArgsHashLimit == 50

\* argsHash: '' without args, else '-args_' and the joined entries without the
\* characters outside [a-zA-Z0-9_-], cut to its first 50 characters
ArgsHash(entries) ==
  IF entries = <<>> THEN <<>>
  ELSE LET hash == <<"-", "a", "r", "g", "s", "_">> \o RemoveNonWord(JoinHashParts(entries, 1))
       IN IF Len(hash) > ArgsHashLimit THEN SubSeq(hash, 1, ArgsHashLimit) ELSE hash

\* the filename of a capture with options o, taken at the clock o.clock
Filename(o) ==
  SanitizeStoryId(getComponentUrl(o.component, o.variant).storyId)
    \o ArgsHash(o.args)
    \o <<"_">> \o getStateString(o.state)
    \o <<"_">> \o ViewportString(o.viewport)
    \o <<"_">> \o ReplaceColonsAndDots(ToISOString(o.clock))
    \o <<".", "p", "n", "g">>

\* the characters of the component strings tried
NameChars == {"A", "a", "/", "\\"}

NameComponents == StringsOver(NameChars, MaxNameLen) \ {<<>>}

NameVariants == {<<>>, <<"D">>, <<"/">>}

NameArgValues == {StringValue(<<"!">>), ArrayValue(<<>>)}

\* the args objects tried: the keys of an object are distinct
NameArgs ==
  {e \in UNION {[1..k -> [key : ArgKeys, value : NameArgValues]] : k \in 0..MaxNameArgs} :
     \A i, j \in 1..Len(e) : i # j => e[i].key # e[j].key}

\* the states of the screenshot test
NameStates == {s \in States : ~s.active /\ ~(s.hover /\ s.focus)}

Viewports == {[width |-> 1024, height |-> 768], [width |-> 102, height |-> 4768]}

\* the options of one capture and the clock at its file name
CaptureOptions ==
  [component : NameComponents,
   variant : NameVariants,
   args : NameArgs,
   state : NameStates,
   viewport : Viewports,
   clock : NameClocks]

\* the parts of the options that a file name is built from
OptionFields == {"component", "variant", "args", "state", "viewport", "clock"}

\* the options that differ from o in the part f
DifferIn(o, f) ==
  CASE f = "component" -> {[o EXCEPT !.component = c] : c \in NameComponents \ {o.component}}
    [] f = "variant" -> {[o EXCEPT !.variant = v] : v \in NameVariants \ {o.variant}}
    [] f = "args" -> {[o EXCEPT !.args = a] : a \in NameArgs \ {o.args}}
    [] f = "state" -> {[o EXCEPT !.state = t] : t \in NameStates \ {o.state}}
    [] f = "viewport" -> {[o EXCEPT !.viewport = w] : w \in Viewports \ {o.viewport}}
    [] OTHER -> {[o EXCEPT !.clock = t] : t \in NameClocks \ {o.clock}}

\* what a step of these captures leaves alone
NamesFrame ==
  UNCHANGED <<srvVars, dVars, urlVars, slugVars, argsVars, bodyVars, fileVars,
              probeVars, retryVars, domVars, checkerVars, testVars>>

\* the file name of capture i (lines 196-221)
GenerateFilename(i) ==
  /\ npc[i] = "idle"
  /\ npc' = [npc EXCEPT ![i] = "named"]
  /\ filenames' = [filenames EXCEPT ![i] = Filename(options[i])]
  /\ UNCHANGED options
  /\ NamesFrame

\* two captures whose options differ in one part
InitNames ==
  /\ ServerInit
  /\ DiscoverIdle
  /\ UrlIdle
  /\ SlugIdle
  /\ ArgsIdle
  /\ BodyIdle
  /\ FilesIdle
  /\ ProbeIdle
  /\ RetryIdle
  /\ DomIdle
  /\ CheckerIdle
  /\ TestIdle
  /\ \E o \in CaptureOptions, f \in OptionFields :
       \E q \in DifferIn(o, f) : options = <<o, q>>
  /\ filenames = [i \in Captures |-> <<>>]
  /\ npc = [i \in Captures |-> "idle"]

NextNames == \E i \in Captures : GenerateFilename(i)

SpecNames == InitNames /\ [][NextNames]_vars

(***************************************************************************)
(* checkStorybookConnection (utils.ts)                                     *)
(***************************************************************************)
\* what a step of the connection check leaves alone
ProbeFrame ==
  UNCHANGED <<srvVars, dVars, urlVars, slugVars, argsVars, bodyVars, fileVars,
              nameVars, retryVars, domVars, checkerVars, testVars>>

\* chromium.launch(), newContext(), newPage(): a failure goes to the catch, which
\* throws, and the finally finds no browser
LaunchProbe(ok) ==
  /\ qpc = "idle"
  /\ IF ok
       THEN /\ probeBrowser' = "open"
            /\ qpc' = "goto"
            /\ UNCHANGED connection
       ELSE /\ connection' = "failed"
            /\ qpc' = "finally"
            /\ UNCHANGED probeBrowser
  /\ UNCHANGED <<target, endpoint>>
  /\ ProbeFrame

\* page.goto(storybookUrl, {timeout: 500}): a throw (the timeout is one), no
\* response and a status of 400 or more are thrown to the catch
ProbeGoto ==
  /\ qpc = "goto"
  /\ IF target.base.kind # "status" \/ target.base.status >= 400
       THEN /\ connection' = "failed"
            /\ qpc' = "finally"
       ELSE /\ qpc' = "endpoints"
            /\ UNCHANGED connection
  /\ UNCHANGED <<target, probeBrowser, endpoint>>
  /\ ProbeFrame

\* one round of the loop over apiEndpoints: status 200 returns, any other
\* response and a throw go on to the next endpoint
CheckEndpoint ==
  /\ qpc = "endpoints"
  /\ IF target.api[endpoint] = Response("status", 200)
       THEN /\ connection' = "ok"
            /\ qpc' = "finally"
            /\ UNCHANGED endpoint
       ELSE /\ endpoint' = endpoint + 1
            /\ qpc' = IF endpoint = Len(ApiEndpoints) THEN "apis" ELSE "endpoints"
            /\ UNCHANGED connection
  /\ UNCHANGED <<target, probeBrowser>>
  /\ ProbeFrame

\* detectStorybookAPIs(page): a recognised global object returns
DetectAPIs ==
  /\ qpc = "apis"
  /\ IF target.detected
       THEN /\ connection' = "ok"
            /\ qpc' = "finally"
       ELSE /\ qpc' = "ui"
            /\ UNCHANGED connection
  /\ UNCHANGED <<target, probeBrowser, endpoint>>
  /\ ProbeFrame

\* title, body text, class and iframe evidence: found returns, none throws, and
\* so does a page that cannot be read
LookForEvidence ==
  /\ qpc = "ui"
  /\ connection' = IF target.evidence = "found" THEN "ok" ELSE "failed"
  /\ qpc' = "finally"
  /\ UNCHANGED <<target, probeBrowser, endpoint>>
  /\ ProbeFrame

\* finally: browser.close().catch(console.error) when there is a browser
CloseProbeBrowser ==
  /\ qpc = "finally"
  /\ probeBrowser' = IF probeBrowser = "open" THEN "closed" ELSE probeBrowser
  /\ qpc' = "done"
  /\ UNCHANGED <<target, endpoint, connection>>
  /\ ProbeFrame

\* a call on any target
InitProbe ==
  /\ ServerInit
  /\ DiscoverIdle
  /\ UrlIdle
  /\ SlugIdle
  /\ ArgsIdle
  /\ BodyIdle
  /\ FilesIdle
  /\ NamesIdle
  /\ RetryIdle
  /\ DomIdle
  /\ CheckerIdle
  /\ TestIdle
  /\ target \in Targets
  /\ probeBrowser = "none"
  /\ qpc = "idle"
  /\ endpoint = 1
  /\ connection = "none"

NextProbe ==
  \/ \E ok \in BOOLEAN : LaunchProbe(ok)
  \/ ProbeGoto
  \/ CheckEndpoint
  \/ DetectAPIs
  \/ LookForEvidence
  \/ CloseProbeBrowser

SpecProbe == InitProbe /\ [][NextProbe]_vars

(***************************************************************************)
(* checkStorybookConnectionWithRetry (index.ts)                            *)
(***************************************************************************)
\* largest maxRetries of a call
MaxRetries == 4

\* the delays of a call
Delays == {0, 4000, 40000}

\* longest backoff delay
MaxBackoff == 30000

RECURSIVE Pow(_, _)
Pow(b, n) == IF n = 0 THEN 1 ELSE b * Pow(b, n - 1)

\* Math.min(delay * Math.pow(1.5, attempts - 1), 30000), for the delays that
\* the power leaves whole
BackoffDelay(d, n) ==
  LET grown == (d * Pow(3, n - 1)) \div Pow(2, n - 1)
  IN IF grown < MaxBackoff THEN grown ELSE MaxBackoff

\* what a step of the call leaves alone
RetryFrame ==
  UNCHANGED <<srvVars, dVars, urlVars, slugVars, argsVars, bodyVars, fileVars,
              nameVars, probeVars, domVars, checkerVars, testVars>>

\* the test of the while loop: attempts < maxRetries goes on to the try, else the
\* call returns false
TestAttempts ==
  /\ rpc = "loop"
  /\ IF attempts < maxRetries
       THEN /\ rpc' = "calling"
            /\ UNCHANGED retryResult
       ELSE /\ rpc' = "returned"
            /\ retryResult' = "false"
  /\ UNCHANGED <<maxRetries, delay, attempts, checkCalls, successes, backoffs>>
  /\ RetryFrame

\* a call that rethrows the failure of checkStorybookConnection
CallCheck_Rethrows(ok) ==
  /\ rpc = "calling"
  /\ checkCalls' = checkCalls + 1
  /\ IF ok
       THEN /\ successes' = successes + 1
            /\ rpc' = "returned"
            /\ retryResult' = "true"
            /\ UNCHANGED attempts
       ELSE /\ attempts' = attempts + 1
            /\ rpc' = "returned"
            /\ retryResult' = "threw"
            /\ UNCHANGED successes
  /\ UNCHANGED <<maxRetries, delay, backoffs>>
  /\ RetryFrame

\* await checkStorybookConnection(url) in the try: a success returns true; a
\* failure is caught, counted, and breaks out of the loop at the last attempt
CallCheck(ok) ==
  /\ rpc = "calling"
  /\ checkCalls' = checkCalls + 1
  /\ IF ok
       THEN /\ successes' = successes + 1
            /\ rpc' = "returned"
            /\ retryResult' = "true"
            /\ UNCHANGED attempts
       ELSE /\ attempts' = attempts + 1
            /\ successes' = successes
            /\ IF attempts + 1 >= maxRetries
                 THEN /\ rpc' = "returned"
                      /\ retryResult' = "false"
                 ELSE /\ rpc' = "waiting"
                      /\ UNCHANGED retryResult
  /\ UNCHANGED <<maxRetries, delay, backoffs>>
  /\ RetryFrame

\* the wait of backoffDelay milliseconds, then the loop again
Backoff ==
  /\ rpc = "waiting"
  /\ backoffs' = Append(backoffs, BackoffDelay(delay, attempts))
  /\ rpc' = "loop"
  /\ UNCHANGED <<maxRetries, delay, attempts, checkCalls, successes, retryResult>>
  /\ RetryFrame

\* a call with any maxRetries and delay
InitRetry ==
  /\ ServerInit
  /\ DiscoverIdle
  /\ UrlIdle
  /\ SlugIdle
  /\ ArgsIdle
  /\ BodyIdle
  /\ FilesIdle
  /\ NamesIdle
  /\ ProbeIdle
  /\ DomIdle
  /\ CheckerIdle
  /\ TestIdle
  /\ maxRetries \in (0 - 1)..MaxRetries
  /\ delay \in Delays
  /\ attempts = 0
  /\ checkCalls = 0
  /\ successes = 0
  /\ backoffs = <<>>
  /\ rpc = "loop"
  /\ retryResult = "none"

NextRetry ==
  \/ TestAttempts
  \/ \E ok \in BOOLEAN : CallCheck(ok)
  \/ Backoff

SpecRetry == InitRetry /\ [][NextRetry]_vars

(***************************************************************************)
(* The element of applyStateToFrame and the element of                     *)
(* findComponentElement (unnamed/part_011)                                 *)
(*                                                                         *)
(* The document of the frame is held by its containers in document order:  *)
(* the elements that one of the selectors names as a parent, each with the *)
(* tags of its children.                                                   *)
(***************************************************************************)
\* most containers of a document
MaxContainers == 2
\* most children of a container
MaxChildren == 2

\* the parents of the selectors of findComponentElement, in the order of its
\* selectors: #storybook-root, #root, [data-story-block="true"], .sb-story,
\* .sb-main
ContainerKinds == <<"storybook-root", "root", "story-block", "sb-story", "sb-main">>

\* the parents of the selector list of applyStateToFrame
StateKinds == {"storybook-root", "root", "story-block", "sb-story"}

\* the parents of the selector of the root element
RootKinds == {"storybook-root", "root", "story-block"}

Tags == {"style", "script", "div"}

Containers ==
  [kind : {ContainerKinds[k] : k \in 1..Len(ContainerKinds)},
   children : UNION {[1..n -> Tags] : n \in 0..MaxChildren}]

Documents == UNION {[1..n -> Containers] : n \in 0..MaxContainers}

\* the elements of a document, and their document order
Elements(d) ==
  {e \in [container : 1..Len(d), child : 1..MaxChildren] :
     e.child <= Len(d[e.container].children)}

Before(e, f) ==
  \/ e.container < f.container
  \/ e.container = f.container /\ e.child <= f.child

\* querySelector and frame.$: the first of the elements in document order, null
\* when there is none
First(es) ==
  IF es = {} THEN NoElement ELSE CHOOSE e \in es : \A f \in es : Before(e, f)

IsComponentTag(d, e) == d[e.container].children[e.child] \notin {"style", "script"}

\* document.querySelector('#storybook-root > *, #root > *,
\* [data-story-block="true"] > *, .sb-story > *') of applyStateToFrame
StateElement(d) == First({e \in Elements(d) : d[e.container].kind \in StateKinds})

\* frame.$(selector) for the k-th selector of findComponentElement
SelectorElement(d, k) ==
  First({e \in Elements(d) : d[e.container].kind = ContainerKinds[k] /\ IsComponentTag(d, e)})

\* the loop over the selectors from the k-th on: the first selector that finds
\* an element gives it
RECURSIVE FindFrom(_, _)
FindFrom(d, k) ==
  IF k > Len(ContainerKinds) THEN NoElement
  ELSE IF SelectorElement(d, k) # NoElement THEN SelectorElement(d, k)
  ELSE FindFrom(d, k + 1)

\* the broader approach: the first child, style and script apart, of the first
\* root element
RootFirstChild(d) ==
  LET roots == {c \in 1..Len(d) : d[c].kind \in RootKinds}
  IN IF roots = {} THEN NoElement
     ELSE LET root == CHOOSE c \in roots : \A b \in roots : c <= b
          IN First({e \in Elements(d) : e.container = root /\ IsComponentTag(d, e)})

\* findComponentElement in the frame
findComponentElement(d) ==
  IF FindFrom(d, 1) # NoElement THEN FindFrom(d, 1) ELSE RootFirstChild(d)

\* what a step on the document leaves alone
DomFrame ==
  UNCHANGED <<srvVars, dVars, urlVars, slugVars, argsVars, bodyVars, fileVars,
              nameVars, probeVars, retryVars, checkerVars, testVars>>

\* applyStateToFrame with a state flag set: the element of its querySelector gets
\* the classes and the events; without such an element nothing is marked
ApplyStateToFrame ==
  /\ mpc = "idle"
  /\ marked' = StateElement(frameDoc)
  /\ mpc' = "applied"
  /\ UNCHANGED <<frameDoc, captured>>
  /\ DomFrame

\* screenshotComponent: the element of findComponentElement, or without one the
\* root element, or without a root the iframe
ScreenshotComponent ==
  /\ mpc = "applied"
  /\ captured' = IF findComponentElement(frameDoc) # NoElement THEN "element"
                 ELSE IF \E c \in 1..Len(frameDoc) : frameDoc[c].kind \in RootKinds
                        THEN "root"
                 ELSE "iframe"
  /\ mpc' = "captured"
  /\ UNCHANGED <<frameDoc, marked>>
  /\ DomFrame

\* a capture with a state flag set, on any document
InitDom ==
  /\ ServerInit
  /\ DiscoverIdle
  /\ UrlIdle
  /\ SlugIdle
  /\ ArgsIdle
  /\ BodyIdle
  /\ FilesIdle
  /\ NamesIdle
  /\ ProbeIdle
  /\ RetryIdle
  /\ CheckerIdle
  /\ TestIdle
  /\ frameDoc \in Documents
  /\ marked = NoElement
  /\ captured = "none"
  /\ mpc = "idle"

NextDom ==
  \/ ApplyStateToFrame
  \/ ScreenshotComponent

SpecDom == InitDom /\ [][NextDom]_vars

(***************************************************************************)
(* The connection checker: startConnectionChecker, stopConnectionChecker,  *)
(* the health and reconnect tools, runServer and gracefulShutdown          *)
(* (index.ts)                                                              *)
(***************************************************************************)
\* most timers created in a run
MaxTimers == 3
\* most timer callbacks that await their check at once
MaxChecking == 2

\* what a step of the connection checker leaves alone
CheckerFrame ==
  UNCHANGED <<srvVars, dVars, urlVars, slugVars, argsVars, bodyVars, fileVars,
              nameVars, probeVars, retryVars, domVars, testVars>>

Serving == cpc \in {"serving", "stopping"}

\* a startConnectionChecker without the test of storybookConnected
startConnectionChecker_Untested ==
  /\ timerCount < MaxTimers
  /\ timerCount' = timerCount + 1
  /\ storybookConnectionChecker' = timerCount + 1
  /\ timers' = timers \cup {timerCount + 1}

\* startConnectionChecker: while not connected, setInterval creates a timer and
\* the global names it
startConnectionChecker ==
  IF ~storybookConnected
    THEN /\ timerCount < MaxTimers
         /\ timerCount' = timerCount + 1
         /\ storybookConnectionChecker' = timerCount + 1
         /\ timers' = timers \cup {timerCount + 1}
    ELSE UNCHANGED <<storybookConnectionChecker, timers, timerCount>>

\* stopConnectionChecker, and the same lines of the timer callback: the timer
\* that the global names is cleared and the global set to null
stopConnectionChecker ==
  /\ timers' = timers \ {storybookConnectionChecker}
  /\ storybookConnectionChecker' = 0
  /\ UNCHANGED timerCount

\* runServer after its connection check: connected, or the checker is started;
\* the tools are registered after it
RunServer(ok) ==
  /\ cpc = "connecting"
  /\ cpc' = "serving"
  /\ IF ok
       THEN /\ storybookConnected' = TRUE
            /\ UNCHANGED <<storybookConnectionChecker, timers, timerCount>>
       ELSE /\ startConnectionChecker
            /\ UNCHANGED storybookConnected
  /\ UNCHANGED <<checking, hkind, hpc>>
  /\ CheckerFrame

\* a timer fires while not connected: its callback calls
\* checkStorybookConnection and awaits it
TimerFires(t) ==
  /\ Serving
  /\ t \in timers
  /\ ~storybookConnected
  /\ checking < MaxChecking
  /\ checking' = checking + 1
  /\ UNCHANGED <<storybookConnected, storybookConnectionChecker, timers, timerCount,
                 hkind, hpc, cpc>>
  /\ CheckerFrame

\* the check of a timer callback settles: on success the flag is set and the
\* timer that the global names is cleared; a failure is logged
CallbackSettles(ok) ==
  /\ Serving
  /\ checking > 0
  /\ checking' = checking - 1
  /\ IF ok
       THEN /\ storybookConnected' = TRUE
            /\ stopConnectionChecker
       ELSE UNCHANGED <<storybookConnected, storybookConnectionChecker, timers,
                        timerCount>>
  /\ UNCHANGED <<hkind, hpc, cpc>>
  /\ CheckerFrame

\* a health or reconnect request arrives: connected, it answers at once; not
\* connected, it awaits checkStorybookConnectionWithRetry
ToolRequest(i, kind) ==
  /\ Serving
  /\ hpc[i] = "idle"
  /\ hkind' = [hkind EXCEPT ![i] = kind]
  /\ hpc' = [hpc EXCEPT ![i] = IF storybookConnected THEN "done" ELSE "awaiting"]
  /\ UNCHANGED <<storybookConnected, storybookConnectionChecker, timers, timerCount,
                 checking, cpc>>
  /\ CheckerFrame

\* the retry of a request returns: connected, the flag is set and the checker
\* stopped; not connected, health does nothing and reconnect starts the checker
\* when the global is null
ToolSettles(i, ok) ==
  /\ Serving
  /\ hpc[i] = "awaiting"
  /\ hpc' = [hpc EXCEPT ![i] = "done"]
  /\ IF ok
       THEN /\ storybookConnected' = TRUE
            /\ stopConnectionChecker
       ELSE /\ UNCHANGED storybookConnected
            /\ IF hkind[i] = "reconnect" /\ storybookConnectionChecker = 0
                 THEN startConnectionChecker
                 ELSE UNCHANGED <<storybookConnectionChecker, timers, timerCount>>
  /\ UNCHANGED <<checking, hkind, cpc>>
  /\ CheckerFrame

\* gracefulShutdown up to its wait: stopConnectionChecker. During the connection
\* check of runServer there is nothing to wait for and the process exits
GracefulShutdown ==
  /\ cpc \in {"connecting", "serving"}
  /\ cpc' = IF cpc = "connecting" THEN "exited" ELSE "stopping"
  /\ stopConnectionChecker
  /\ UNCHANGED <<storybookConnected, checking, hkind, hpc>>
  /\ CheckerFrame

\* process.exit: the timers go with the process
Exit ==
  /\ cpc = "stopping"
  /\ cpc' = "exited"
  /\ timers' = {}
  /\ UNCHANGED <<storybookConnected, storybookConnectionChecker, timerCount, checking,
                 hkind, hpc>>
  /\ CheckerFrame

\* runServer awaiting its connection check
InitChecker ==
  /\ ServerInit
  /\ DiscoverIdle
  /\ UrlIdle
  /\ SlugIdle
  /\ ArgsIdle
  /\ BodyIdle
  /\ FilesIdle
  /\ NamesIdle
  /\ ProbeIdle
  /\ RetryIdle
  /\ DomIdle
  /\ TestIdle
  /\ storybookConnected = FALSE
  /\ storybookConnectionChecker = 0
  /\ timers = {}
  /\ timerCount = 0
  /\ checking = 0
  /\ hkind = [i \in Requests |-> "none"]
  /\ hpc = [i \in Requests |-> "idle"]
  /\ cpc = "connecting"

NextChecker ==
  \/ \E ok \in BOOLEAN : RunServer(ok)
  \/ \E t \in 1..MaxTimers : TimerFires(t)
  \/ \E ok \in BOOLEAN : CallbackSettles(ok)
  \/ \E i \in Requests, kind \in {"health", "reconnect"} : ToolRequest(i, kind)
  \/ \E i \in Requests, ok \in BOOLEAN : ToolSettles(i, ok)
  \/ GracefulShutdown
  \/ Exit

SpecChecker == InitChecker /\ [][NextChecker]_vars

(***************************************************************************)
(* The screenshot test: the components tool, then one capture per          *)
(* component, variant and state (the test script, index.ts), against     *)
(* a Storybook that answers every navigation and an output directory that  *)
(* takes every write.  A story is held as what it renders.                 *)
(***************************************************************************)
\* most components of the Storybook, and most variants of a component
MaxTestComponents == 2
MaxTestVariants == 2

\* what the first element of a story is: an element with a box, or one without
\* (display: none, a closed dialog), of which Playwright takes no screenshot
Renderings == {"visible", "hidden"}

SeqsUpTo(S, n) == UNION {[1..k -> S] : k \in 0..n}

Storybooks == SeqsUpTo(SeqsUpTo(Renderings, MaxTestVariants) \ {<<>>}, MaxTestComponents)

statesToTest == <<"default", "hover", "focus">>

\* what a step of the test leaves alone
TestFrame ==
  UNCHANGED <<srvVars, dVars, urlVars, slugVars, argsVars, bodyVars,
              fileVars, nameVars, probeVars, retryVars, domVars, checkerVars>>

\* captureComponent of a story, navigation and write succeeding: the screenshot
\* of the component element, null when it throws, and a null screenshot thrown
\* as 'Failed to capture component screenshot'
captureComponent(rendering) == rendering = "visible"

\* processNextScreenshot: the indexes moved past the finished variants and
\* components, and whether a capture is left to request
RECURSIVE processNextScreenshot(_, _, _, _)
processNextScreenshot(map, ci, vi, si) ==
  IF ci >= Len(map)
    THEN [component |-> ci, variant |-> vi, state |-> si, test |-> "completed"]
    ELSE IF vi >= Len(map[ci + 1])
           THEN processNextScreenshot(map, ci + 1, 0, 0)
           ELSE IF si >= Len(statesToTest)
                  THEN processNextScreenshot(map, ci, vi + 1, 0)
                  ELSE [component |-> ci, variant |-> vi, state |-> si,
                        test |-> "capture-screenshot"]

\* the indexes after processNextScreenshot, and the capture request it sends
ProcessNext(map, ci, vi, si) ==
  LET next == processNextScreenshot(map, ci, vi, si)
  IN  /\ currentComponentIndex' = next.component
      /\ currentVariantIndex' = next.variant
      /\ currentStateIndex' = next.state
      /\ currentTest' = next.test
      /\ captureRequest' =
           IF next.test = "capture-screenshot"
             THEN [component |-> next.component + 1, variant |-> next.variant + 1,
                   state |-> statesToTest[next.state + 1]]
             ELSE NoCaptureRequest

\* the components tool and the test's handling of its answer: connected, the
\* components of the Storybook; the test ends on an empty list and asks for the
\* first capture otherwise
ComponentsTool ==
  /\ currentTest = "components-tool"
  /\ LET components == IF storybookConnected THEN storybook ELSE <<>>
     IN  IF Len(components) > 0
           THEN /\ componentsMap' = components
                /\ ProcessNext(components, 0, 0, 0)
           ELSE /\ currentTest' = "completed"
                /\ UNCHANGED <<componentsMap, currentComponentIndex,
                               currentVariantIndex, currentStateIndex, captureRequest>>
  /\ UNCHANGED <<storybook, captureData, outputFiles, screenshotsTaken,
                 failedScreenshots>>
  /\ TestFrame

\* the capture tool: not connected, an error; else captureComponent, whose
\* result is answered with success: true and whose throw with success: false
CaptureTool ==
  /\ currentTest = "capture-screenshot"
  /\ captureRequest # NoCaptureRequest
  /\ ~captureData.answered
  /\ LET rendering == storybook[captureRequest.component][captureRequest.variant]
         path == Cardinality(outputFiles) + 1
     IN  IF storybookConnected /\ captureComponent(rendering)
           THEN /\ outputFiles' = outputFiles \cup {path}
                /\ captureData' = [answered |-> TRUE, success |-> TRUE,
                                   screenshotPath |-> path]
           ELSE /\ captureData' = [answered |-> TRUE, success |-> FALSE,
                                   screenshotPath |-> 0]
                /\ UNCHANGED outputFiles
  /\ UNCHANGED <<storybook, componentsMap, currentComponentIndex, currentVariantIndex,
                 currentStateIndex, currentTest, captureRequest, screenshotsTaken,
                 failedScreenshots>>
  /\ TestFrame

\* case 'capture-screenshot' of the test: a success whose file exists is counted
\* as taken, anything else as failed; then the next state
CaptureResponse ==
  /\ currentTest = "capture-screenshot"
  /\ captureData.answered
  /\ IF captureData.success /\ captureData.screenshotPath \in outputFiles
       THEN /\ screenshotsTaken' = screenshotsTaken + 1
            /\ UNCHANGED failedScreenshots
       ELSE /\ failedScreenshots' = failedScreenshots + 1
            /\ UNCHANGED screenshotsTaken
  /\ captureData' = NoCaptureData
  /\ ProcessNext(componentsMap, currentComponentIndex, currentVariantIndex,
                 currentStateIndex + 1)
  /\ UNCHANGED <<storybook, componentsMap, outputFiles>>
  /\ TestFrame

\* the test has asked for the components of a connected server
InitTest ==
  /\ ServerInit
  /\ DiscoverIdle
  /\ UrlIdle
  /\ SlugIdle
  /\ ArgsIdle
  /\ BodyIdle
  /\ FilesIdle
  /\ NamesIdle
  /\ ProbeIdle
  /\ RetryIdle
  /\ DomIdle
  /\ storybookConnected = TRUE
  /\ storybookConnectionChecker = 0
  /\ timers = {}
  /\ timerCount = 0
  /\ checking = 0
  /\ hkind = [i \in Requests |-> "none"]
  /\ hpc = [i \in Requests |-> "idle"]
  /\ cpc = "serving"
  /\ storybook \in Storybooks
  /\ componentsMap = <<>>
  /\ currentComponentIndex = 0
  /\ currentVariantIndex = 0
  /\ currentStateIndex = 0
  /\ currentTest = "components-tool"
  /\ captureRequest = NoCaptureRequest
  /\ captureData = NoCaptureData
  /\ outputFiles = {}
  /\ screenshotsTaken = 0
  /\ failedScreenshots = 0

NextTest ==
  \/ ComponentsTool
  \/ CaptureTool
  \/ CaptureResponse

SpecTest == InitTest /\ [][NextTest]_vars

(***************************************************************************)
(* The server                                                              *)
(***************************************************************************)
Next ==
  \/ \E i \in Calls : CallStart(i)
  \/ \E i \in Calls : ValidateMkdir(i)
  \/ \E i \in Calls : ValidateWrite(i)
  \/ \E i \in Calls : ValidateUnlink(i)
  \/ \E i \in Calls : CaptureMkdir(i)
  \/ \E i \in Calls : CaptureWrite(i)
  \/ \E i \in Calls : CaptureUnlink(i)
  \/ \E i \in Calls : GetBrowserEnter(i)
  \/ \E i \in Calls : LaunchResolve(i)
  \/ \E i \in Calls : LaunchReject(i)
  \/ \E i \in Calls : ContextResolve(i)
  \/ \E i \in Calls : ContextReject(i)
  \/ \E i \in Calls : NewPage(i)
  \/ \E i \in Calls, ok \in BOOLEAN : BodyNavigate(i, ok)
  \/ \E i \in Calls, ok \in BOOLEAN : BodyScreenshot(i, ok)
  \/ \E i \in Calls, ok \in BOOLEAN : BodyWrite(i, ok)
  \/ \E i \in Calls : ReleasePage(i)
  \/ \E t \in Triggers : ShutdownTrigger(t)
  \/ DuplicateTrigger
  \/ WaitRequestsDone
  \/ WaitTimeout
  \/ CloseResolve
  \/ CloseReject

Spec == Init /\ [][Next]_vars

\* the server with the scheduling of gracefulShutdown: while it waits, the
\* interval check or the 5 s timer ends the Promise.race, whatever the requests
\* do; and the close() that closeBrowser awaits settles
LiveSpec ==
  /\ Spec
  /\ WF_vars(WaitRequestsDone \/ WaitTimeout)
  /\ WF_vars(CloseResolve \/ CloseReject)

(***************************************************************************)
(* Properties of the browser session, the capture and the shutdown         *)
(***************************************************************************)
NoBrowserFault == \A j \in Calls : fault[j] \notin {"launch", "context"}

Returned(i) == got[i].browser # 0

\* C1: while no shutdown has begun and no launch or context creation has failed,
\* chromium.launch() is invoked at most once and all callers of getBrowser
\* receive the same browser and the same context.
C1_SingleLaunchSameSession ==
  (sdpc = "idle" /\ ~isShuttingDown /\ NoBrowserFault) =>
    /\ launchCalls <= 1
    /\ \A i, j \in Calls : (Returned(i) /\ Returned(j)) => got[i] = got[j]

\* C2: with a writable output directory, no shutdown and no failure of the
\* browser launch, a capture call ends as it would alone: with success when the
\* environment lets each of its own operations succeed, with failure when not.
C2_OutcomeAsWhenAlone ==
  (sdpc = "idle" /\ ~isShuttingDown /\ NoBrowserFault) =>
    \A i \in Calls :
      pc[i] = "done" => result[i] = (IF fault[i] = "none" THEN "ok" ELSE "failed")

\* C3: a page is open only while its call is inside the try block of
\* captureComponent (or the process died with the call in flight): once the call
\* has returned or thrown, the page it opened is closed, so the calls that are
\* over leave no page open in the context.
C3_PageReleasedOnEveryExit ==
  \A i \in Calls :
    pageState[i] = "open" =>
      pc[i] \in {"bodyNav", "bodyShot", "bodyWrite", "finally", "killed"}

\* a call that opened a page and then threw, with the page closed at its end
C3_Witness ==
  \E i \in Calls :
    /\ pc[i] = "done"
    /\ result[i] = "failed"
    /\ fault[i] \in {"navigate", "screenshot", "write"}
    /\ pageCtx[i] # 0
    /\ pageState[i] = "closed"

\* C4: close() is invoked at most once on every browser, and exactly once on the
\* browser that was shared when closeBrowser ran.
C4_BrowserClosedExactlyOnce ==
  /\ \A b \in Browsers : closeCalls[b] <= 1
  /\ (sdpc = "exited" /\ closingB # 0) => closeCalls[closingB] = 1

\* C5: a getBrowser call made while no other call is in flight (so also the
\* first call after a failed one) either attempts a launch or returns a session
\* with a context, and a failure of launch or newContext reaches the caller.
C5_FailureLeavesSingletonUninitialised ==
  [][\A i \in Calls :
       /\ (/\ pc[i] = "getBrowser"
           /\ pc'[i] = "newPage"
           /\ \A j \in Calls \ {i} : pc[j] \in {"idle", "done"})
          => got'[i].context # 0
       /\ (pc'[i] = "done" /\ fault'[i] \in {"launch", "context"})
          => result'[i] = "failed"]_vars

(***************************************************************************)
(* Properties of the discovery                                             *)
(***************************************************************************)
Returns == dpc = "done" /\ dResult.status = "ok"

\* an entry is an object that carries its type, and a component identifier can
\* be derived from it, by the rule of index.json and by the rule of the other
\* sources
WellFormed(s) ==
  \A k \in 1..Len(s) :
    /\ ~s[k].null
    /\ s[k].type # "none"
    /\ Or3(s[k].componentId, s[k].title, IdPrefix(s[k].id)) # <<>>
    /\ Or3(s[k].componentId, s[k].kind, s[k].title) # <<>>

StoryCount(s) == Cardinality({k \in 1..Len(s) : ~s[k].null /\ s[k].type = "story"})

RECURSIVE TotalVariants(_)
TotalVariants(comps) ==
  IF comps = <<>> THEN 0 ELSE Len(Head(comps).variants) + TotalVariants(Tail(comps))

\* C6: when getComponents returns for a story index of well-formed, typed
\* entries, the returned components have pairwise distinct ids and their
\* variants are as many as the entries of type story in the index.
C6_OneComponentPerIdAllStoriesCounted ==
  (Returns /\ WellFormed(data)) =>
    /\ \A k, l \in 1..Len(dResult.components) :
         k # l => dResult.components[k].id # dResult.components[l].id
    /\ TotalVariants(dResult.components) = StoryCount(data)

\* C7: no variant of a returned component comes from an entry whose type is
\* present and not "story", whichever path produced the components.
C7_NoNonStoryVariant ==
  Returns =>
    \A k \in 1..Len(dResult.components) :
      \A v \in 1..Len(dResult.components[k].variants) :
        \A j \in 1..Len(data) :
          data[j].id = dResult.components[k].variants[v].id
            => data[j].type \in {"story", "none"}

StrategyOrder == <<"index", "stories", "inpage">>

\* a strategy yielded something: getComponents returned its components
Yielded(st) == Returns /\ dResult.via = st

\* C8: the strategies attempted by a finished discovery are index.json,
\* stories.json, in-page, in this order without a gap, and after each attempted
\* strategy that yielded nothing (that did not end the discovery with its
\* components) the next one was attempted.
C8_StrategiesInOrder ==
  dpc = "done" =>
    \A k \in 1..Len(attempted) :
      /\ attempted[k] = StrategyOrder[k]
      /\ (k < Len(StrategyOrder) /\ ~Yielded(attempted[k])) => k < Len(attempted)

\* C9: a discovery that came to the in-page extraction succeeds whenever the
\* document served at the base URL exposes a story store or sidebar story nodes
\* that the extraction can read.
C9_InPageReadsBasePage ==
  (/\ dpc = "done"
   /\ attempted # <<>>
   /\ attempted[Len(attempted)] = "inpage"
   /\ ~Extract(baseDoc, data).error)
  => dResult.status = "ok"

\* C10: when the base page was loaded and index.json answers 200 with an
\* entries or stories map of objects, getComponents returns the components
\* grouped from that map, whatever the base page contains.
C10_IndexJsonDecides ==
  (/\ dpc = "done"
   /\ loc # "blank"
   /\ indexResp \in {"entries", "stories"}
   /\ ~HasNull(data))
  => /\ dResult.status = "ok"
     /\ dResult.via = "index"
     /\ dResult.components = GroupIndex(<<>>, data)

\* if (!story || typeof story !== 'object') return: the test that skips an entry
IsObject(e) == ~e.null

\* C11: when index.json was requested and answers 200 with an entries or stories
\* map, a null entry of the map is skipped: getComponents returns, by the
\* index.json strategy, the components grouped from the other entries.
C11_NullEntrySkipped ==
  (/\ dpc = "done"
   /\ attempted # <<>>
   /\ indexResp \in {"entries", "stories"})
  => /\ dResult.status = "ok"
     /\ dResult.via = "index"
     /\ dResult.components = GroupIndex(<<>>, SelectSeq(data, IsObject))

(***************************************************************************)
(* Properties of the story id and of the slug                              *)
(***************************************************************************)
\* the slug as the specification words it: lowercased, whitespace runs replaced
\* by hyphens, characters other than word characters and hyphens removed
SlugOf(s) == RemoveNonWord(ReplaceSpaceRuns(ToLowerCase(s)))

\* the component trimmed, lowercased and with every "/" replaced by "-"
NormalisedComponent == ReplaceSlashes(ToLowerCase(Trim(component)))

\* C12 as stated, for a component that is not empty and a variant that is not
\* blank: the story id is the component string unchanged when it contains "--",
\* else the component followed by "--" and the slug of the variant.
C12_StoryIdAsIsOrSlug ==
  (upc = "done" /\ component # <<>> /\ Trim(variant) # <<>>) =>
    storyId = IF IncludesSeparator(component)
                THEN component
                ELSE component \o Separator \o SlugOf(variant)

\* C12 amended: the story id is empty for an empty component; else it is the
\* component trimmed, lowercased and with every "/" replaced by "-" when the
\* component contains "--", and otherwise that normalised component followed by
\* "--" and the slug of the variant when the variant is not blank, by "--docs"
\* when the variant is blank.
C12_StoryIdNormalised ==
  upc = "done" =>
    storyId = IF component = <<>> THEN <<>>
              ELSE IF IncludesSeparator(component) THEN NormalisedComponent
              ELSE IF Trim(variant) # <<>>
                     THEN NormalisedComponent \o Separator \o SlugOf(variant)
                     ELSE NormalisedComponent \o Separator \o DocsName

\* a component with the separator whose story id is not the component itself
C12_Witness ==
  /\ upc = "done"
  /\ IncludesSeparator(component)
  /\ storyId # component
  /\ storyId = NormalisedComponent

\* C13: prepareForStorybookUrl applied to its own result changes nothing, and
\* prepareForStorybookUrl("Primary Button") is "primary-button".
C13_SlugIdempotent ==
  /\ spc = "twice" => reprepared = prepared
  /\ (spc # "idle" /\ str = PrimaryButton) =>
       prepared = <<"p", "r", "i", "m", "a", "r", "y", "-", "b", "u", "t", "t", "o", "n">>

(***************************************************************************)
(* Properties of the encoding of args                                      *)
(***************************************************************************)
\* the args object with the one entry key: value
OneArg(key, value) == <<[key |-> key, value |-> value]>>

\* C14: the encoding of a boolean, null, array or object value starts with "!"
\* after its key, and it differs from the encoding of every string value under
\* the same key.
C14_BangDisambiguates ==
  (/\ apc = "done"
   /\ Len(args) = 1
   /\ args[1].value.t \in {"boolean", "null", "array", "object"})
  => /\ SerializedValue(args[1].value)[1] = "!"
     /\ \A s \in ArgStrings :
          argsString # formatArgsForUrl(OneArg(args[1].key, StringValue(s)))

C16_OnlyNavigationAndWriteFatal ==
  (/\ bpc = "done"
   /\ response.kind = "status"
   /\ response.status < 400
   /\ bfault \notin {"content", "reload", "write"})
  => /\ captureResult.success
     /\ captureResult.screenshotPath

\* C17: the screenshot is taken of the component when findComponentElement
\* resolved one; of the root container only when it resolved none and the
\* preview iframe, its frame and the root exist; of the iframe only when
\* neither component nor root was resolved and the iframe exists; of the page
\* only when no component was resolved and no preview iframe exists.
C17_TiersInOrder ==
  /\ tier = "component" => found
  /\ tier = "root" => (~found /\ dom.iframe /\ dom.frame /\ dom.root)
  /\ tier = "iframe" => (~found /\ dom.iframe /\ ~(dom.frame /\ dom.root))
  /\ tier = "page" => (~found /\ ~dom.iframe)

\* a successful capture of the root container of the iframe
C17_Witness ==
  /\ bpc = "done"
  /\ tier = "root"
  /\ ~found
  /\ captureResult.success

\* the marker classes of the true flags of the requested state
RequestedClasses ==
  {c \in {"sb-pseudo-hover", "sb-pseudo-focus", "sb-pseudo-active"} :
     \/ c = "sb-pseudo-hover" /\ state.hover
     \/ c = "sb-pseudo-focus" /\ state.focus
     \/ c = "sb-pseudo-active" /\ state.active}

\* C18 as stated: after the state step of a capture whose document has a root
\* component element, the marker classes added to it are exactly those of the
\* true flags of the requested state.
C18_ClassesAreTrueFlags ==
  (stateScript # "none" /\ dom.child) => classes = RequestedClasses

\* C18 amended: after a state step whose script ran to its end on a root
\* component element, the marker classes added are exactly those of the true
\* flags (both for hover and focus); none is added when all flags are false or
\* absent or no element is found; when the script throws, the classes added
\* are some of those of the true flags.
C18_ClassesAreTrueFlagsWhenScriptRan ==
  /\ stateScript = "ran" => classes = RequestedClasses
  /\ (state.hover /\ state.focus /\ ~state.active /\ stateScript = "ran")
       => classes = {"sb-pseudo-hover", "sb-pseudo-focus"}
  /\ stateScript \in {"none", "skipped", "noElement"} => classes = {}
  /\ (~state.hover /\ ~state.focus /\ ~state.active) => classes = {}
  /\ classes \subseteq RequestedClasses

\* a capture with hover and focus that got both classes
C18_Witness ==
  /\ stateScript = "ran"
  /\ state = [hover |-> TRUE, focus |-> TRUE, active |-> FALSE]
  /\ classes = {"sb-pseudo-hover", "sb-pseudo-focus"}

\* C19: selectVariantInStorybook and verifyVariantLoaded end with a boolean and
\* without a throw whatever they find, click or throw, and the capture goes on
\* from them to the state application, the search of the component and the
\* screenshot.
C19_VariantStepsNeverFail ==
  [][/\ bpc = "selectVariant" =>
          (bpc' = "verifyVariant" /\ variantSelected' \in BOOLEAN /\ bfault' = "none")
     /\ bpc = "verifyVariant" =>
          (bpc' = "applyState" /\ variantVerified' \in BOOLEAN /\ bfault' = "none")
     /\ bpc = "applyState" => (bpc' = "findComponent" /\ bfault' = "none")
     /\ bpc = "findComponent" => (bpc' = "screenshot" /\ bfault' = "none")]_vars

\* a capture that succeeded with the variant neither selected nor verified
C19_Witness ==
  /\ bpc = "done"
  /\ ~variantSelected
  /\ ~variantVerified
  /\ tier # "none"
  /\ captureResult.success

(***************************************************************************)
(* Properties of the screenshot files                                      *)
(***************************************************************************)
\* C20: two invocations with identical component, variant, state and viewport,
\* one after the other or at the same time, get different file names, and
\* neither write replaces the file of the other.
C20_DistinctFilenames ==
  /\ \A i, j \in Invocations :
       (i # j /\ filename[i] # 0 /\ filename[j] # 0) => filename[i] # filename[j]
  /\ replaced = {}

(***************************************************************************)
(* Properties of the file name                                             *)
(***************************************************************************)
\* C21: two captures that differ in component, variant, args, state, viewport or
\* timestamp get different file names.
C21_FilenameInjective ==
  (/\ npc[1] = "named"
   /\ npc[2] = "named"
   /\ options[1] # options[2])
  => filenames[1] # filenames[2]

\* the characters that separate the parts of a path (path.sep of POSIX and of
\* Windows)
PathSeparators == {"/", "\\"}

\* C29: the file name that captureComponent generates contains no path separator,
\* whatever the component, variant, args, state and viewport are, so the file
\* written lies directly inside the output directory.
C29_FilenameHasNoSeparator ==
  \A i \in Captures :
    npc[i] = "named" =>
      \A k \in 1..Len(filenames[i]) : filenames[i][k] \notin PathSeparators

\* a file name was generated for a component that holds a path separator, with
\* args
C29_Witness ==
  \E i \in Captures :
    /\ npc[i] = "named"
    /\ \E k \in 1..Len(options[i].component) : options[i].component[k] \in PathSeparators
    /\ options[i].args # <<>>

(***************************************************************************)
(* Properties of checkStorybookConnection                                  *)
(***************************************************************************)
\* the index of /index.json in apiEndpoints
IndexJson == CHOOSE k \in 1..Len(ApiEndpoints) : ApiEndpoints[k] = "/index.json"

\* C22: checkStorybookConnection (its browser launched) succeeds for every base
\* URL whose /index.json endpoint answers with HTTP 200, whatever the page
\* exposes and shows.
C22_IndexJsonSuffices ==
  (/\ qpc = "done"
   /\ probeBrowser # "none"
   /\ target.api[IndexJson] = Response("status", 200))
  => connection = "ok"

(***************************************************************************)
(* Properties of checkStorybookConnectionWithRetry                         *)
(***************************************************************************)
\* C24: checkStorybookConnectionWithRetry never throws; it calls
\* checkStorybookConnection at most maxRetries times; it returns true at the
\* first successful call and makes no call after it; it returns false exactly
\* when maxRetries calls in a row failed or maxRetries is not positive; and it
\* waits between two attempts only, never after the last one.
C24_RetryContract ==
  /\ retryResult # "threw"
  /\ checkCalls <= (IF maxRetries > 0 THEN maxRetries ELSE 0)
  /\ successes <= 1
  /\ successes = 1 => rpc = "returned" /\ retryResult = "true"
  /\ rpc = "returned" =>
       /\ retryResult \in {"true", "false"}
       /\ retryResult = "true" <=> successes = 1
       /\ retryResult = "false" <=>
            \/ maxRetries <= 0 /\ checkCalls = 0
            \/ maxRetries > 0 /\ checkCalls = maxRetries /\ successes = 0
       /\ Len(backoffs) = (IF checkCalls > 0 THEN checkCalls - 1 ELSE 0)
  /\ Len(backoffs) <= checkCalls

\* a call returned false after maxRetries failed calls with waits between them
C24_Witness ==
  /\ rpc = "returned"
  /\ retryResult = "false"
  /\ checkCalls = maxRetries
  /\ Len(backoffs) >= 2

(***************************************************************************)
(* Termination of gracefulShutdown                                         *)
(***************************************************************************)
\* C25: after a shutdown trigger gracefulShutdown eventually exits the process,
\* also when requests in flight never complete and when closing the browser
\* throws.
C25_ShutdownExits == isShuttingDown ~> (sdpc = "exited")

\* the process exited with a request cut off in flight, after a close() of the
\* browser
C25_Witness ==
  /\ sdpc = "exited"
  /\ \E i \in Calls : pc[i] = "killed"
  /\ \E b \in Browsers : closeCalls[b] > 0

(***************************************************************************)
(* Properties of the session that getBrowser returns                       *)
(***************************************************************************)
\* C26: under every interleaving of concurrent getBrowser calls (no launch or
\* context creation failing, no shutdown), a caller that returns gets a session
\* whose context is not null.
C26_ContextNeverNull ==
  (~isShuttingDown /\ NoBrowserFault) =>
    \A i \in Calls : Returned(i) => got[i].context # 0

\* closeBrowser has returned: the shutdown is through and the globals are cleared
\* (or there was no browser to close)
CloseBrowserCompleted == sdpc = "exited" /\ browserInstance = 0

\* C27: once closeBrowser has completed during shutdown, no browser launched
\* through getBrowser is still open (and the process, gone, launches none).
C27_NoBrowserLeftOpen ==
  CloseBrowserCompleted => \A b \in Browsers : browserState[b] # "open"

(***************************************************************************)
(* Properties of the element that gets the state                           *)
(***************************************************************************)
\* C28: in a capture with a state, the element that applyStateToFrame gave the
\* marker classes and the events is the element that screenshotComponent
\* captures, whatever the rendering root holds.
C28_StateOnCapturedElement ==
  (mpc = "captured" /\ marked # NoElement) =>
    /\ captured = "element"
    /\ marked = findComponentElement(frameDoc)

(***************************************************************************)
(* Properties of the connection checker                                    *)
(***************************************************************************)
\* C30: at every moment at most one connection-checker timer is active, and no
\* timer is active while storybookConnected is true.
C30_OneTimerNoneWhenConnected ==
  /\ Cardinality(timers) <= 1
  /\ storybookConnected => timers = {}

\* a second timer was started by a reconnect during the shutdown, after the first
\* was stopped, and a timer callback then connected and cleared it
C30_Witness ==
  /\ storybookConnected
  /\ timerCount = 2
  /\ timers = {}
  /\ storybookConnectionChecker = 0
  /\ cpc = "stopping"

(***************************************************************************)
(* Properties of the screenshot test                                       *)
(***************************************************************************)
\* C23: every capture the test requests, for a component and variant that the
\* components tool returned and a state default, hover or focus, is answered
\* with success: true and a screenshotPath at which a file exists.
C23_EveryDiscoveredVariantCaptured ==
  captureData.answered
    => /\ captureData.success
       /\ captureData.screenshotPath \in outputFiles

====
